---- MODULE Spec2Model ----
(***************************************************************************)
(* Position lifecycle manager of the moonshot sniper bot                   *)
(* (src/engines/position_manager.py) together with the loops of            *)
(* src/main.py that drive it.                                              *)
(*                                                                         *)
(* Numbers.  The program computes with floats; the model uses fixed point. *)
(*   price    : PriceUnit = 20 is a price of $1.00 (one unit = $0.05)      *)
(*   quantity : QtyPerDollar = 4000 units are bought by $1.00 at $1.00     *)
(*   money    : quantity * price, so Dollar = 80000 units = $1.00          *)
(* With these units every product and quotient the model reaches is an     *)
(* integer for positions sized in whole dollars; the one place that rounds *)
(* is the "90% of the remaining pool" resize, rounded down to a cent.      *)
(* Time is in minutes.                                                     *)
(***************************************************************************)
EXTENDS Integers, Sequences, FiniteSets, TLC

\* ------------------------------------------------------------------------
\* units of the fixed-point representation
PriceUnit == 4 * 5
QtyPerDollar == 4 * 1000
Dollar == PriceUnit * QtyPerDollar
Cent == Dollar \div 100

\* ------------------------------------------------------------------------
\* configuration (src/config/settings.py)
SAFE_POOL ==
    [name |-> "SAFE", allocation_percent |-> 60, min_score |-> 75, min_confluence |-> 3,
     stop_loss_percent |-> 0 - 20, position_size_percent |-> 15,
     max_positions |-> 3, trailing_stop_percent |-> 20, flat_exit_minutes |-> 120]

HUNT_POOL ==
    [name |-> "HUNT", allocation_percent |-> 40, min_score |-> 65, min_confluence |-> 2,
     stop_loss_percent |-> 0 - 30, position_size_percent |-> 15,
     max_positions |-> 2, trailing_stop_percent |-> 25, flat_exit_minutes |-> 240]

\* TakeProfitLevel(level, trigger_percent, sell_percent, move_sl_to_percent);
\* move_sl_to_percent is Optional: <<>> is None, <<x>> is x
TAKE_PROFIT_LADDER ==
    << [level |-> 1, trigger_percent |-> 50,  sell_percent |-> 20, move_sl_to_percent |-> <<0>>],
       [level |-> 2, trigger_percent |-> 100, sell_percent |-> 30, move_sl_to_percent |-> <<25>>],
       [level |-> 3, trigger_percent |-> 200, sell_percent |-> 25, move_sl_to_percent |-> <<75>>],
       [level |-> 4, trigger_percent |-> 500, sell_percent |-> 15, move_sl_to_percent |-> <<150>>] >>

starting_capital == 100
daily_loss_limit_percent == 15
consecutive_loss_pause == 3
pause_duration_hours == 4
max_position_size == 20
min_position_size == 5
max_total_positions == 5

Pools == {"SAFE", "HUNT"}

\* pool_config = SAFE_POOL if pool == "SAFE" else HUNT_POOL
PoolConfig(pool) == IF pool = "SAFE" THEN SAFE_POOL ELSE HUNT_POOL

Abs(x) == IF x < 0 THEN 0 - x ELSE x

\* ------------------------------------------------------------------------
\* state
VARIABLES
    now,                \* datetime.utcnow(), minutes
    pos,                \* every ActivePosition object created so far, by id
    positions,          \* PositionManager.positions: the ids registered as active
    next_id,            \* the id db.create_position hands out next
    available_capital,
    safe_pool_capital,
    hunt_pool_capital,
    daily_pnl,
    daily_trades,
    consecutive_losses,
    is_paused,
    pause_until,        \* Optional[datetime]: <<>> is None, <<t>> is t
    scan_pc,            \* the scan loop: "idle", or "buy" inside open_position
    open_req,           \* open_position's locals while it awaits the buy
    tick_pc,            \* the position loop: "idle", "price", "tp", "sl", "time", "save"
    tick_queue,         \* list(self.positions.values()) still to process, head = pos
    tp_idx,             \* index into TAKE_PROFIT_LADDER of _check_take_profits' loop
    hist,               \* per position: what the execution collaborator has sold
    sell_failures,      \* how many sells the execution collaborator has refused
    ticks,              \* how many times the position loop has called update_positions
    eng,                \* the last call of a decision engine: its inputs and its result
    rpc,                \* RPCManager: endpoint health, rotation index, the request in hand
    bot,                \* MoonshotBot: running, the stop() task, the collaborators' connections
    db                  \* Database: the positions table, and how start() has gone

ledger == <<available_capital, safe_pool_capital, hunt_pool_capital,
            daily_pnl, daily_trades, consecutive_losses, is_paused, pause_until>>

vars == <<now, pos, positions, next_id, available_capital, safe_pool_capital,
          hunt_pool_capital, daily_pnl, daily_trades, consecutive_losses,
          is_paused, pause_until, scan_pc, open_req, tick_pc, tick_queue,
          tp_idx, hist, sell_failures, ticks, eng, bot, rpc, db>>

total_capital == starting_capital * Dollar

\* Optional values: <<>> is None, <<x>> is x
None == << >>
Some(x) == <<x>>

NoReq == [pool |-> "", entry_price |-> 0, size_usd |-> 0, quantity |-> 0, stop_loss |-> 0]

NoHist == [sold |-> 0, closes |-> << >>]

\* no decision engine has been called yet
NoCall == [kind |-> "none"]

\* MoonshotBot after start(): running, no stop() task, every collaborator
\* connected
Started ==
    [running |-> TRUE, stop_pc |-> "none", db_connection |-> TRUE,
     execution_session |-> TRUE, dexscreener_session |-> TRUE]

\* Database after connect() on a new file: the positions table is empty.
\* rows is the table by id; starts counts the processes started on the file,
\* start is how PositionManager.start() ended in this one, and before is what
\* the positions of the process before were when it stopped.
Connected == [rows |-> << >>, starts |-> 1, start |-> "ok", before |-> << >>]

\* RPCHealth(endpoint=rpc) as the dataclass defaults build it
NewHealth ==
    [is_healthy |-> TRUE, consecutive_failures |-> 0, last_failure |-> 0,
     total_requests |-> 0, failed_requests |-> 0]

\* the endpoints of the chain's configuration, by position in config.rpcs
Endpoints == 1..3

\* what request can return: None, the body of a 200 response, a cached body
Data == <<"data">>
Cached == <<"cached">>

\* RPCManager after __init__ and _initialize: no session, every endpoint
\* healthy, rotation at the first endpoint, no request in hand.  clock
\* stands for time.time(), cache for a live entry under the request's key,
\* responses for what the endpoints have answered to the request in hand,
\* limited for its rate-limited passes, calls for the requests made so far.
Constructed ==
    [session |-> FALSE, health |-> [e \in Endpoints |-> NewHealth],
     current_index |-> 0, clock |-> 0, calls |-> 0,
     cache |-> FALSE, pc |-> "idle", active |-> TRUE, use_cache |-> TRUE,
     attempt |-> 0, endpoint |-> 0, responses |-> << >>, limited |-> 0,
     result |-> None]

\* ------------------------------------------------------------------------
\* ActivePosition

\* ActivePosition(...) as open_position builds it
NewPosition(pool, entry_price, size_usd, quantity, stop_loss, t) ==
    [pool |-> pool, entry_price |-> entry_price, entry_value |-> size_usd,
     entry_time |-> t,
     current_price |-> entry_price, highest_price |-> entry_price,
     pnl_percent |-> 0,
     tp_levels_hit |-> << >>, current_stop_loss |-> stop_loss,
     trailing_active |-> FALSE, trailing_high |-> 0,
     original_quantity |-> quantity, remaining_quantity |-> quantity,
     total_sold_value |-> 0, total_realized_pnl |-> 0]

\* ActivePosition.update_price (pnl_usd, a reporting field, is left out)
update_price(p, new_price) ==
    LET higher == new_price > p.highest_price
    IN  [p EXCEPT
           !.current_price = new_price,
           !.highest_price = IF higher THEN new_price ELSE @,
           !.trailing_high = IF higher /\ p.trailing_active THEN new_price ELSE @,
           !.pnl_percent = IF p.entry_price > 0
                           THEN ((new_price - p.entry_price) * 100) \div p.entry_price
                           ELSE @]

\* ActivePosition.age_minutes
age_minutes(p) == now - p.entry_time

InSeq(x, s) == \E i \in 1..Len(s) : s[i] = x

\* trigger_price = pos.entry_price * (1 + tp.trigger_percent / 100)
trigger_price(p, tp) == (p.entry_price * (100 + tp.trigger_percent)) \div 100

\* the test of _check_take_profits' loop body without the look at tp_levels_hit
tp_due_again(p, tp) == p.current_price >= trigger_price(p, tp)

\* the test of _check_take_profits' loop body, made only while no pause is set
tp_due_unless_paused(p, tp) ==
    /\ ~is_paused
    /\ ~InSeq(tp.level, p.tp_levels_hit)
    /\ p.current_price >= trigger_price(p, tp)

\* the test of _check_take_profits' loop body: level not hit and price at the trigger
tp_due(p, tp) ==
    /\ ~InSeq(tp.level, p.tp_levels_hit)
    /\ p.current_price >= trigger_price(p, tp)

\* the percentage taken of the original quantity instead
sell_quantity_of_original(p, sell_percent) == (p.original_quantity * sell_percent) \div 100

\* sell_quantity = pos.remaining_quantity * (sell_percent / 100)
sell_quantity(p, sell_percent) == (p.remaining_quantity * sell_percent) \div 100

\* the stop moved to the new level without the comparison
move_stop_loss_unguarded(old_sl, new_sl) == new_sl

\* "Move stop loss": the new level only if it is above the current one
move_stop_loss(old_sl, new_sl) == IF new_sl > old_sl THEN new_sl ELSE old_sl

\* new_sl = pos.entry_price * (1 + new_sl_percent / 100)
new_sl_price(p, new_sl_percent) == (p.entry_price * (100 + new_sl_percent)) \div 100

\* "Activate trailing stop after TP4"
activates_trailing(level) == level >= 4

\* _execute_take_profit, given that the sell was issued and succeeded
take_profit_success(p, tp) ==
    LET q == sell_quantity(p, tp.sell_percent)
        sell_value == q * p.current_price
        profit == sell_value - q * p.entry_price
        act == activates_trailing(tp.level)
    IN  [p EXCEPT
           !.tp_levels_hit = Append(@, tp.level),
           !.remaining_quantity = @ - q,
           !.total_sold_value = @ + sell_value,
           !.total_realized_pnl = @ + profit,
           !.current_stop_loss =
               IF tp.move_sl_to_percent # None
               THEN move_stop_loss(@, new_sl_price(p, tp.move_sl_to_percent[1]))
               ELSE @,
           !.trailing_active = IF act THEN TRUE ELSE @,
           !.trailing_high = IF act THEN p.current_price ELSE @]

\* _execute_take_profit: sell_quantity <= 0 returns before any sell is issued
take_profit_sells(p, tp) == sell_quantity(p, tp.sell_percent) > 0

\* the position updated whether or not the sell succeeded
take_profit_outcome_unchecked(p, tp, ok) == take_profit_success(p, tp)

\* _execute_take_profit's "if result.success:": the position after the sell
take_profit_outcome(p, tp, ok) == IF ok THEN take_profit_success(p, tp) ELSE p

\* trail_stop = pos.trailing_high * (1 - trail_percent / 100)
trail_stop(p) ==
    (p.trailing_high * (100 - PoolConfig(p.pool).trailing_stop_percent)) \div 100

\* _check_stop_loss, the part before any close: the trailing ratchet
trailing_ratchet(p) ==
    IF p.trailing_active /\ trail_stop(p) > p.current_stop_loss
    THEN [p EXCEPT !.current_stop_loss = trail_stop(p)]
    ELSE p

\* _check_stop_loss closing only below the stop, not at it
stop_loss_reason_below(p) ==
    IF p.trailing_active /\ p.current_price < trail_stop(p)
    THEN Some("TRAILING_STOP")
    ELSE IF p.current_price < p.current_stop_loss
         THEN Some("STOP_LOSS")
         ELSE None

\* _check_stop_loss: the reason it closes for, None when it does not close
stop_loss_reason(p) ==
    IF p.trailing_active /\ p.current_price <= trail_stop(p)
    THEN Some("TRAILING_STOP")
    ELSE IF p.current_price <= p.current_stop_loss
         THEN Some("STOP_LOSS")
         ELSE None

\* _check_time_exit: "exit if flat for too long"
time_exit_due(p) ==
    /\ age_minutes(p) > PoolConfig(p.pool).flat_exit_minutes
    /\ Abs(p.pnl_percent) < 10

\* ------------------------------------------------------------------------
\* PositionManager: open_position

\* "Check if paused": the call returns None here
pause_blocks == is_paused /\ pause_until # None /\ now < pause_until[1]

\* pool_positions = len([p for p in self.positions.values() if p.pool == pool])
pool_positions(pool) == Cardinality({i \in positions : pos[i].pool = pool})

\* the limits compared with > where the program has >=
limit_blocks_late(pool) ==
    \/ pool_positions(pool) > PoolConfig(pool).max_positions
    \/ Cardinality(positions) > max_total_positions

\* "Check position limits": the call returns None here
limit_blocks(pool) ==
    \/ pool_positions(pool) >= PoolConfig(pool).max_positions
    \/ Cardinality(positions) >= max_total_positions

pool_capital(pool) == IF pool = "SAFE" THEN safe_pool_capital ELSE hunt_pool_capital

\* pool_capital * 0.9, to the cent
ninety_percent(capital) == ((capital * 9) \div (10 * Cent)) * Cent

\* the requested size kept whatever the pool holds
clamp_size_kept(size_usd, capital) == size_usd

\* "Check available capital": the size the position is opened with
clamp_size(size_usd, capital) ==
    IF size_usd > capital THEN ninety_percent(capital) ELSE size_usd

\* "Position size too small": the call returns None here
size_blocks(size_usd) == size_usd < min_position_size * Dollar

\* quantity = size_usd / entry_price if entry_price > 0 else 0
open_quantity(size_usd, entry_price) ==
    IF entry_price > 0 THEN size_usd \div entry_price ELSE 0

\* stop_loss = entry_price * (1 - sl_percent / 100), sl_percent = abs(pool stop_loss_percent)
initial_stop_loss(pool, entry_price) ==
    (entry_price * (100 - Abs(PoolConfig(pool).stop_loss_percent))) \div 100

\* open_position up to "result = await self.execution.buy_token(...)"
OpenBegin(pool, entry_price, size_usd) ==
    /\ scan_pc = "idle"
    /\ IF pause_blocks
       THEN UNCHANGED <<is_paused, scan_pc, open_req>>
       ELSE /\ is_paused' = FALSE
            /\ LET size == clamp_size(size_usd, pool_capital(pool))
               IN  IF limit_blocks(pool) \/ size_blocks(size)
                   THEN UNCHANGED <<scan_pc, open_req>>
                   ELSE /\ scan_pc' = "buy"
                        /\ open_req' = [pool |-> pool, entry_price |-> entry_price,
                                        size_usd |-> size,
                                        quantity |-> open_quantity(size, entry_price),
                                        stop_loss |-> initial_stop_loss(pool, entry_price)]
    /\ UNCHANGED <<now, pos, positions, next_id, available_capital, safe_pool_capital,
                   hunt_pool_capital, daily_pnl, daily_trades, consecutive_losses,
                   pause_until, tick_pc, tick_queue, tp_idx, hist, sell_failures, ticks>>

\* "Update capital" at the end of open_position: the amount taken from the pool
open_debit(req) == req.size_usd

\* open_position from the buy's result to its return
OpenFinish(ok) ==
    /\ scan_pc = "buy"
    /\ scan_pc' = "idle"
    /\ open_req' = NoReq
    /\ IF ~ok
       THEN UNCHANGED <<pos, positions, next_id, available_capital,
                        safe_pool_capital, hunt_pool_capital, hist>>
       ELSE /\ pos' = pos @@ (next_id :>
                         NewPosition(open_req.pool, open_req.entry_price, open_req.size_usd,
                                     open_req.quantity, open_req.stop_loss, now))
            /\ hist' = hist @@ (next_id :> NoHist)
            /\ positions' = positions \cup {next_id}
            /\ next_id' = next_id + 1
            /\ safe_pool_capital' = IF open_req.pool = "SAFE"
                                    THEN safe_pool_capital - open_debit(open_req)
                                    ELSE safe_pool_capital
            /\ hunt_pool_capital' = IF open_req.pool = "SAFE"
                                    THEN hunt_pool_capital
                                    ELSE hunt_pool_capital - open_debit(open_req)
            /\ available_capital' = available_capital - open_debit(open_req)
    /\ UNCHANGED <<now, daily_pnl, daily_trades, consecutive_losses, is_paused,
                   pause_until, tick_pc, tick_queue, tp_idx, sell_failures, ticks>>

\* ------------------------------------------------------------------------
\* PositionManager: _close_position and the circuit breaker

\* total_pnl = pos.total_realized_pnl + final_profit
close_total_pnl(p) ==
    p.total_realized_pnl
      + (p.remaining_quantity * p.current_price - p.remaining_quantity * p.entry_price)

\* return_value = pos.total_sold_value + sell_value
close_return_value(p) == p.total_sold_value + p.remaining_quantity * p.current_price

\* _close_position's first test: nothing is left to sell, the call returns
close_is_noop(p) == p.remaining_quantity <= 0

\* the consecutive-loss rule tripping one loss late
breaker_trips_late(losses, pnl) ==
    \/ losses > consecutive_loss_pause
    \/ pnl <= 0 - (daily_loss_limit_percent * total_capital) \div 100

\* _check_circuit_breaker, on the counters as _close_position has just set them:
\* daily_pnl / total_capital * 100 <= -daily_loss_limit_percent
breaker_trips(losses, pnl) ==
    \/ losses >= consecutive_loss_pause
    \/ pnl <= 0 - (daily_loss_limit_percent * total_capital) \div 100

\* _close_position calls _check_circuit_breaker on this branch only
breaker_checked(total_pnl) == total_pnl < 0

\* consecutive_losses counting every losing close of the day, never reset
losses_after_kept(losses, total_pnl) == IF total_pnl < 0 THEN losses + 1 ELSE losses

\* consecutive_losses after a close with this total_pnl
losses_after(losses, total_pnl) == IF total_pnl < 0 THEN losses + 1 ELSE 0

\* _activate_pause: pause_until = utcnow() + timedelta(hours=pause_duration_hours)
pause_deadline(t) == t + pause_duration_hours * 60

\* the total left as it is when a position closes
credit_available_never(capital, return_value) == capital

\* self.available_capital += return_value
credit_available(capital, return_value) == capital + return_value

\* _close_position(pos, reason) where the object pos has the value p and the sell,
\* if one is issued, succeeds iff ok
ClosePosition(id, p, reason, ok) ==
    IF close_is_noop(p) \/ ~ok
    THEN /\ sell_failures' = IF close_is_noop(p) THEN sell_failures ELSE sell_failures + 1
         /\ UNCHANGED <<positions, hist, available_capital, safe_pool_capital,
                        hunt_pool_capital, daily_pnl, daily_trades, consecutive_losses,
                        is_paused, pause_until>>
    ELSE LET total_pnl == close_total_pnl(p)
             return_value == close_return_value(p)
             losses == losses_after(consecutive_losses, total_pnl)
             pnl == daily_pnl + total_pnl
             trip == breaker_checked(total_pnl) /\ breaker_trips(losses, pnl)
         IN  /\ safe_pool_capital' = IF p.pool = "SAFE"
                                     THEN safe_pool_capital + return_value
                                     ELSE safe_pool_capital
             /\ hunt_pool_capital' = IF p.pool = "SAFE"
                                     THEN hunt_pool_capital
                                     ELSE hunt_pool_capital + return_value
             /\ available_capital' = credit_available(available_capital, return_value)
             /\ daily_pnl' = pnl
             /\ daily_trades' = daily_trades + 1
             /\ consecutive_losses' = losses
             /\ is_paused' = IF trip THEN TRUE ELSE is_paused
             /\ pause_until' = IF trip THEN Some(pause_deadline(now)) ELSE pause_until
             /\ positions' = positions \ {id}
             /\ hist' = [hist EXCEPT ![id].sold = @ + p.remaining_quantity,
                                     ![id].closes = Append(@, reason)]
             /\ UNCHANGED sell_failures

\* ------------------------------------------------------------------------
\* PositionManager: update_positions, one step per awaited collaborator call

\* for pos in list(self.positions.values()): dict order is insertion order
ActiveList == SelectSeq([i \in 1..(next_id - 1) |-> i], LAMBDA i : i \in positions)

\* _position_loop: asyncio.sleep has taken dt minutes, update_positions is entered
\* and takes its snapshot of the positions (with none, it returns at once)
TickBegin(dt) ==
    /\ tick_pc = "idle"
    /\ now' = now + dt
    /\ ticks' = ticks + 1
    /\ tick_queue' = ActiveList
    /\ tick_pc' = IF positions # {} THEN "price" ELSE "idle"
    /\ UNCHANGED <<pos, positions, next_id, available_capital, safe_pool_capital,
                   hunt_pool_capital, daily_pnl, daily_trades, consecutive_losses,
                   is_paused, pause_until, scan_pc, open_req, tp_idx, hist, sell_failures>>

\* An object that nothing refers to any more: a position deleted from
\* self.positions once the loop variable that still held it moves on.
Freed == NewPosition("", 0, 0, 0, 0, 0)

\* the heap after the loop variable pos lets go of position id
Release(heap, id, free) == IF id \in positions THEN heap ELSE [heap EXCEPT ![id] = free]

\* the loop of update_positions moves to its next position, or returns
NextPosition ==
    /\ tick_queue' = Tail(tick_queue)
    /\ tick_pc' = IF Len(tick_queue) > 1 THEN "price" ELSE "idle"
    /\ tp_idx' = 1

\* the test "if price" alone, which a negative price passes
price_valid_truthy(price) == price # 0

\* if price and price > 0
price_valid(price) == price > 0

\* _check_take_profits' loop from ladder index k on: the index of the first level
\* for which _execute_take_profit issues a sell, 0 when the loop ends without one
\* (an iteration that issues no sell has no await, it runs on at once)
RECURSIVE next_take_profit(_, _)
next_take_profit(p, k) ==
    IF k > Len(TAKE_PROFIT_LADDER) THEN 0
    ELSE IF tp_due(p, TAKE_PROFIT_LADDER[k]) /\ take_profit_sells(p, TAKE_PROFIT_LADDER[k])
         THEN k
         ELSE next_take_profit(p, k + 1)

\* the position loop goes on to the sell of ladder index k, or to _check_stop_loss
GoTakeProfit(k) ==
    /\ tick_pc' = IF k > 0 THEN "tp" ELSE "sl"
    /\ tp_idx' = IF k > 0 THEN k ELSE 1

\* price = await self.dexscreener.get_price(...); pos.update_price(price); the
\* start of _check_take_profits.  The price 0 stands for both None and zero.
TickPrice(price) ==
    /\ tick_pc = "price"
    /\ IF price_valid(price)
       THEN LET p == update_price(pos[Head(tick_queue)], price)
            IN  /\ pos' = [pos EXCEPT ![Head(tick_queue)] = p]
                /\ GoTakeProfit(next_take_profit(p, 1))
                /\ UNCHANGED <<tick_queue, hist>>
       ELSE /\ NextPosition
            /\ pos' = Release(pos, Head(tick_queue), Freed)
            /\ hist' = Release(hist, Head(tick_queue), NoHist)
    /\ UNCHANGED <<now, positions, next_id, available_capital, safe_pool_capital,
                   hunt_pool_capital, daily_pnl, daily_trades, consecutive_losses,
                   is_paused, pause_until, scan_pc, open_req, sell_failures, ticks>>

\* _execute_take_profit from "result = await self.execution.sell_token(...)" on,
\* for the ladder level at tp_idx; the sell succeeds iff ok.  Then the rest of
\* _check_take_profits' loop up to its next sell.
TickTakeProfit(ok) ==
    /\ tick_pc = "tp"
    /\ LET id == Head(tick_queue)
           tp == TAKE_PROFIT_LADDER[tp_idx]
           p == take_profit_outcome(pos[id], tp, ok)
       IN  /\ pos' = [pos EXCEPT ![id] = p]
           /\ hist' = IF ok
                      THEN [hist EXCEPT ![id].sold = @ + sell_quantity(pos[id], tp.sell_percent)]
                      ELSE hist
           /\ sell_failures' = IF ok THEN sell_failures ELSE sell_failures + 1
           /\ GoTakeProfit(next_take_profit(p, tp_idx + 1))
    /\ UNCHANGED <<now, positions, next_id, available_capital, safe_pool_capital,
                   hunt_pool_capital, daily_pnl, daily_trades, consecutive_losses,
                   is_paused, pause_until, scan_pc, open_req, tick_queue, ticks>>

\* _check_stop_loss; the closing sell it may issue succeeds iff ok
TickStopLoss(ok) ==
    /\ tick_pc = "sl"
    /\ LET id == Head(tick_queue)
           p == trailing_ratchet(pos[id])
           reason == stop_loss_reason(p)
       IN  /\ pos' = [pos EXCEPT ![id] = p]
           /\ IF reason # None
              THEN ClosePosition(id, p, reason[1], ok)
              ELSE UNCHANGED <<positions, hist, available_capital, safe_pool_capital,
                               hunt_pool_capital, daily_pnl, daily_trades,
                               consecutive_losses, is_paused, pause_until, sell_failures>>
    /\ tick_pc' = "time"
    /\ UNCHANGED <<now, next_id, scan_pc, open_req, tick_queue, tp_idx, ticks>>

\* _check_time_exit; the closing sell it may issue succeeds iff ok
TickTimeExit(ok) ==
    /\ tick_pc = "time"
    /\ LET id == Head(tick_queue)
           p == pos[id]
       IN  IF time_exit_due(p)
           THEN ClosePosition(id, p, "TIME_EXIT", ok)
           ELSE UNCHANGED <<positions, hist, available_capital, safe_pool_capital,
                            hunt_pool_capital, daily_pnl, daily_trades,
                            consecutive_losses, is_paused, pause_until, sell_failures>>
    /\ tick_pc' = "save"
    /\ UNCHANGED <<now, pos, next_id, scan_pc, open_req, tick_queue, tp_idx, ticks>>

\* await self._save_position_state(pos), then the next position
TickSave ==
    /\ tick_pc = "save"
    /\ NextPosition
    /\ pos' = Release(pos, Head(tick_queue), Freed)
    /\ hist' = Release(hist, Head(tick_queue), NoHist)
    /\ UNCHANGED <<now, positions, next_id, available_capital, safe_pool_capital,
                   hunt_pool_capital, daily_pnl, daily_trades, consecutive_losses,
                   is_paused, pause_until, scan_pc, open_req, sell_failures, ticks>>

\* ------------------------------------------------------------------------
\* the daily loop (src/main.py) and the clock

MinutesPerDay == 24 * 60

\* now.hour == 0 and now.minute == 0
is_midnight(t) == t % MinutesPerDay = 0

\* the daily reset ending the streak of losses as well
DailyResetWithStreak ==
    /\ is_midnight(now)
    /\ daily_pnl' = 0
    /\ daily_trades' = 0
    /\ consecutive_losses' = 0
    /\ UNCHANGED <<now, pos, positions, next_id, available_capital, safe_pool_capital,
                   hunt_pool_capital, is_paused, pause_until,
                   scan_pc, open_req, tick_pc, tick_queue, tp_idx, hist, sell_failures, ticks>>

\* _daily_loop at midnight UTC: "Reset daily stats"
DailyReset ==
    /\ is_midnight(now)
    /\ daily_pnl' = 0
    /\ daily_trades' = 0
    /\ UNCHANGED <<now, pos, positions, next_id, available_capital, safe_pool_capital,
                   hunt_pool_capital, consecutive_losses, is_paused, pause_until,
                   scan_pc, open_req, tick_pc, tick_queue, tp_idx, hist, sell_failures, ticks>>

\* between two calls of update_positions the clock stands still or moves by
\* the shorter flat-exit time, or by the length of a pause
TimeStep == SAFE_POOL.flat_exit_minutes

PauseStep == pause_duration_hours * 60

\* the clock starts at a midnight
StartTime == MinutesPerDay

\* ------------------------------------------------------------------------
\* PositionManager.__init__
Init ==
    /\ now = StartTime
    /\ pos = << >>
    /\ hist = << >>
    /\ positions = {}
    /\ next_id = 1
    /\ available_capital = total_capital
    /\ safe_pool_capital = (total_capital * SAFE_POOL.allocation_percent) \div 100
    /\ hunt_pool_capital = (total_capital * HUNT_POOL.allocation_percent) \div 100
    /\ daily_pnl = 0
    /\ daily_trades = 0
    /\ consecutive_losses = 0
    /\ is_paused = FALSE
    /\ pause_until = None
    /\ scan_pc = "idle"
    /\ open_req = NoReq
    /\ tick_pc = "idle"
    /\ tick_queue = << >>
    /\ tp_idx = 1
    /\ sell_failures = 0
    /\ ticks = 0
    /\ eng = NoCall
    /\ bot = Started
    /\ rpc = Constructed
    /\ db = Connected

\* ------------------------------------------------------------------------
\* specifications

\* The loops of src/main.py under the bounds B.  B.interleave lets the scan loop
\* and the position loop run while the other is suspended at an await; without
\* it each loop runs from one sleep to its next.  B.one_at_a_time opens a
\* position only when none is active.  At most B.max_opens buys succeed, a sell
\* fails only while fewer than B.max_sell_failures sells have failed,
\* update_positions is called at most B.max_ticks times, and the clock moves
\* by one of B.steps between two of its calls.
NextOf(B) ==
    \/ \E pool \in B.pools : \E e \in B.entries, s \in B.sizes[pool] :
          /\ B.interleave \/ tick_pc = "idle"
          /\ B.one_at_a_time => positions = {}
          /\ bot.running
          /\ OpenBegin(pool, e, s)
          /\ UNCHANGED <<eng, bot, rpc, db>>
    \/ \E ok \in BOOLEAN :
          (ok => next_id <= B.max_opens) /\ OpenFinish(ok) /\ UNCHANGED <<eng, bot, rpc, db>>
    \/ \E dt \in B.steps :
          /\ ticks < B.max_ticks
          /\ B.interleave \/ scan_pc = "idle"
          /\ bot.running
          /\ TickBegin(dt)
          /\ UNCHANGED <<eng, bot, rpc, db>>
    \/ \E price \in B.prices : TickPrice(price) /\ UNCHANGED <<eng, bot, rpc, db>>
    \/ \E ok \in BOOLEAN :
          /\ ok \/ sell_failures < B.max_sell_failures
          /\ TickTakeProfit(ok)
          /\ UNCHANGED <<eng, bot, rpc, db>>
    \/ \E ok \in BOOLEAN :
          /\ ok \/ sell_failures < B.max_sell_failures
          /\ TickStopLoss(ok)
          /\ UNCHANGED <<eng, bot, rpc, db>>
    \/ \E ok \in BOOLEAN :
          /\ ok \/ sell_failures < B.max_sell_failures
          /\ TickTimeExit(ok)
          /\ UNCHANGED <<eng, bot, rpc, db>>
    \/ TickSave /\ UNCHANGED <<eng, bot, rpc, db>>
    \/ DailyReset /\ UNCHANGED <<eng, bot, rpc, db>>

\* at most this many buys succeed in the life of one position at a time
MaxOpens == 1
\* at most this many sells fail
MaxSellFailures == 1
\* at most this many calls of update_positions
MaxTicks == 3
\* at most this many buys succeed when positions are held side by side
PoolMaxOpens == 3
\* at most this many calls of update_positions when positions are held side by side
PoolMaxTicks == 2

\* every position is asked for at max_position_size
FullSize == [pool \in Pools |-> {max_position_size * Dollar}]

\* HUNT positions are asked for at half of max_position_size
HalfSizeHunt ==
    [pool \in Pools |-> IF pool = "SAFE" THEN {max_position_size * Dollar}
                        ELSE {(max_position_size \div 2) * Dollar}]

\* One position at a time, through its whole life: every rung of the ladder,
\* the trailing stop, failing sells.
LifeBounds ==
    [pools |-> Pools, entries |-> {PriceUnit}, sizes |-> FullSize,
     prices |-> {0, 14, 20, 30, 120, 160}, steps |-> {0, TimeStep},
     max_opens |-> MaxOpens, max_ticks |-> MaxTicks, max_sell_failures |-> MaxSellFailures,
     interleave |-> FALSE, one_at_a_time |-> TRUE]

\* Several positions side by side in both pools, each loop running from one
\* sleep to its next; every sell succeeds.
PoolBounds ==
    [pools |-> Pools, entries |-> {PriceUnit}, sizes |-> FullSize,
     prices |-> {4, 20, 30}, steps |-> {0, PauseStep},
     max_opens |-> PoolMaxOpens, max_ticks |-> PoolMaxTicks, max_sell_failures |-> 0,
     interleave |-> FALSE, one_at_a_time |-> FALSE]

\* Several positions side by side, the scan loop and the position loop
\* interleaved at every await; every sell succeeds.
ConcBounds ==
    [pools |-> Pools, entries |-> {PriceUnit}, sizes |-> FullSize,
     prices |-> {4, 30}, steps |-> {0, PauseStep},
     max_opens |-> PoolMaxOpens, max_ticks |-> PoolMaxTicks, max_sell_failures |-> 0,
     interleave |-> TRUE, one_at_a_time |-> FALSE]

\* As ConcBounds, with HUNT positions small enough that the HUNT pool still has
\* capital for another one when it holds max_positions of them.
LimitBounds == [ConcBounds EXCEPT !.sizes = HalfSizeHunt]

Next == NextOf(LifeBounds)
Spec == Init /\ [][Next]_vars

NextPool == NextOf(PoolBounds)
SpecPool == Init /\ [][NextPool]_vars

NextConc == NextOf(ConcBounds)
SpecConc == Init /\ [][NextConc]_vars

NextLimit == NextOf(LimitBounds)
SpecLimit == Init /\ [][NextLimit]_vars

\* ------------------------------------------------------------------------
\* properties of one position's life (Spec)

\* the position objects that something still refers to
Live == {id \in DOMAIN pos : pos[id] # Freed}

\* C1: a position's current_stop_loss never goes down after creation, whatever
\* the prices, whichever take-profit sells fail, and however the trailing stop
\* is recomputed.
StopLossNeverLowered ==
    [][\A id \in Live :
          pos'[id] # Freed => pos'[id].current_stop_loss >= pos[id].current_stop_loss]_vars

\* C1's case: a take-profit sell has failed, the ladder has raised the stop,
\* and the trailing stop has raised it further, above the ladder's last level
StopLossRaisedTwice ==
    \E id \in Live :
        /\ sell_failures > 0
        /\ pos[id].trailing_active
        /\ pos[id].current_stop_loss > new_sl_price(pos[id], 150)
        /\ pos[id].current_stop_loss > initial_stop_loss(pos[id].pool, pos[id].entry_price)

\* the position has been closed: a closing sell of it has succeeded
Closed(id) == hist[id].closes # << >>

\* C2: remaining_quantity never grows, stays within 0..original_quantity, and
\* what take-profit sells and the closing sell have sold, plus what finally
\* remains (nothing, once the position is closed), is original_quantity.
QuantityConserved ==
    [][\A id \in DOMAIN pos' :
          pos'[id] # Freed =>
             /\ id \in DOMAIN pos => pos'[id].remaining_quantity <= pos[id].remaining_quantity
             /\ pos'[id].remaining_quantity >= 0
             /\ pos'[id].remaining_quantity <= pos'[id].original_quantity
             /\ hist'[id].sold
                  + (IF hist'[id].closes # << >> THEN 0 ELSE pos'[id].remaining_quantity)
                = pos'[id].original_quantity]_vars

\* C3: a second _close_position on a position whose first close succeeded
\* (here: _check_time_exit closing what _check_stop_loss has just closed, the
\* sell succeeding) sells nothing and leaves capital, daily statistics, the
\* loss counter, the pause state and the active set as they were.
SecondCloseIsNoOp ==
    [][(/\ tick_pc = "time"
        /\ tick_pc' = "save"
        /\ Closed(Head(tick_queue))
        /\ sell_failures' = sell_failures)
       => UNCHANGED <<ledger, positions, hist>>]_vars

\* C4: each position is closed at most once: one full-exit sell, one credit of
\* the returned capital, one update of daily_trades and daily_pnl.
ClosedAtMostOnce == \A id \in DOMAIN hist : Len(hist[id].closes) <= 1

\* the position the monitoring loop is working on
Cur == Head(tick_queue)

\* the ladder indices from k on whose level p has not hit, whose trigger p's
\* price has reached, and for which p has something left to sell
DueFrom(p, k) ==
    {j \in k..Len(TAKE_PROFIT_LADDER) :
        /\ ~InSeq(TAKE_PROFIT_LADDER[j].level, p.tp_levels_hit)
        /\ p.current_price * 100 >= p.entry_price * (100 + TAKE_PROFIT_LADDER[j].trigger_percent)
        /\ p.remaining_quantity > 0}

\* the sell of ladder index j, or of the lowest due index, is what comes next
NextSellIs(D) ==
    IF D = {} THEN tick_pc' = "sl"
    ELSE tick_pc' = "tp" /\ tp_idx' \in D /\ \A j \in D : tp_idx' <= j

\* a sell was issued in this step and failed
SellFailed == sell_failures' = sell_failures + 1

\* this step is one of the monitoring loop's
TickStep == <<tick_pc, tp_idx, tick_queue>>' # <<tick_pc, tp_idx, tick_queue>>

\* C9: execution failures change nothing and are retried.  A failed buy leaves
\* the position map and the capital figures as they were; a failed take-profit
\* sell leaves the position as it was; a failed closing sell leaves the active
\* set, the ledger, the daily statistics and the loss counter as they were.
\* And whether a sell is attempted depends on the position and the price only,
\* never on an earlier failure: on every tick each level that is not hit and
\* whose trigger the price has reached is sold, lowest first, and a position
\* whose price is at or below its stop, or that is flat beyond its flat-exit
\* time, gets its closing sell.
FailuresChangeNothingAndRetry ==
    [][/\ (scan_pc = "buy" /\ scan_pc' = "idle" /\ next_id' = next_id)
          => UNCHANGED <<pos, positions, available_capital, safe_pool_capital,
                         hunt_pool_capital>>
       /\ (tick_pc = "tp" /\ SellFailed)
          => pos'[Cur] = pos[Cur] /\ UNCHANGED <<positions, ledger, hist>>
       /\ (tick_pc \in {"sl", "time"} /\ SellFailed)
          => UNCHANGED <<positions, ledger, hist>>
       /\ (tick_pc = "price" /\ tick_pc' \in {"tp", "sl"})
          => NextSellIs(DueFrom(pos'[Cur], 1))
       /\ (tick_pc = "tp" /\ TickStep)
          => NextSellIs(DueFrom(pos'[Cur], tp_idx + 1))
       /\ (/\ tick_pc = "sl"
           /\ TickStep
           /\ pos'[Cur].current_price <= pos'[Cur].current_stop_loss
           /\ pos'[Cur].remaining_quantity > 0)
          => SellFailed \/ Len(hist'[Cur].closes) = Len(hist[Cur].closes) + 1
       /\ (/\ tick_pc = "time"
           /\ TickStep
           /\ now - pos[Cur].entry_time > PoolConfig(pos[Cur].pool).flat_exit_minutes
           /\ Abs(pos[Cur].pnl_percent) < 10
           /\ pos[Cur].remaining_quantity > 0)
          => SellFailed \/ Len(hist'[Cur].closes) = Len(hist[Cur].closes) + 1]_vars

\* C9's case: the sell of the first level failed while later levels were sold,
\* and on a later tick the first level was sold after all
FailedLevelSoldLater ==
    \E id \in Live :
        /\ sell_failures > 0
        /\ Len(pos[id].tp_levels_hit) >= 2
        /\ pos[id].tp_levels_hit[1] > 1
        /\ pos[id].tp_levels_hit[Len(pos[id].tp_levels_hit)] = 1

\* the larger of two numbers
Max(a, b) == IF a >= b THEN a ELSE b

OpenCall(B) ==
    \E pool \in B.pools : \E e \in B.entries, s \in B.sizes[pool] : OpenBegin(pool, e, s)

\* the pause is in force: is_paused with pause_until still ahead
PauseActive == is_paused /\ pause_until # None /\ now < pause_until[1]

\* C5: once a losing close brings consecutive_losses to 3 the pause is set,
\* for pause_duration_hours from then; an open_position call made while the
\* pause is in force returns without a buy and changes nothing; a call made
\* once pause_until has passed clears is_paused and goes on to the capacity
\* checks, reaching the buy only with room in its pool.
PauseAfterThreeLosses ==
    [][/\ (consecutive_losses' > consecutive_losses /\ consecutive_losses' >= 3)
          => is_paused' /\ pause_until' = <<now + 4 * 60>>
       /\ (PauseActive /\ OpenCall(PoolBounds))
          => scan_pc' = "idle" /\ UNCHANGED vars
       /\ (is_paused /\ ~PauseActive /\ OpenCall(PoolBounds))
          => /\ ~is_paused'
             /\ scan_pc' = "buy"
                  <=> \E pool \in Pools :
                         /\ open_req'.pool = pool
                         /\ Cardinality({i \in positions : pos[i].pool = pool})
                               < PoolConfig(pool).max_positions
                         /\ open_req'.size_usd >= min_position_size * Dollar]_vars

\* C5's case: three losses in a row have set the pause; it has run out and an
\* open_position call has cleared it and reached its buy
PauseExpiredAndCleared ==
    /\ consecutive_losses >= 3
    /\ ~is_paused
    /\ pause_until # None
    /\ now >= pause_until[1]
    /\ scan_pc = "buy"

\* C6: right after every successful close, winning or losing, at which
\* consecutive_losses >= consecutive_loss_pause or the daily loss is at or
\* beyond daily_loss_limit_percent of total capital, the pause is in force.
BreakerOnEveryClose ==
    [][(/\ daily_trades' = daily_trades + 1
        /\ \/ consecutive_losses' >= 3
           \/ daily_pnl' <= 0 - (15 * total_capital) \div 100)
       => PauseActive']_vars

\* the active positions are within the per-pool limits and the total limit
CountsWithinLimits ==
    /\ Cardinality({i \in positions : pos[i].pool = "SAFE"}) <= 3
    /\ Cardinality({i \in positions : pos[i].pool = "HUNT"}) <= 2
    /\ Cardinality(positions) <= 5

\* the limit of this pool, or the total limit, is reached
AtLimit(pool) ==
    \/ Cardinality({i \in positions : pos[i].pool = pool}) >= PoolConfig(pool).max_positions
    \/ Cardinality(positions) >= 5

\* this step is an open_position call for a pool whose limit is reached
OpenCallAtLimit(B) ==
    \E pool \in B.pools : \E e \in B.entries, s \in B.sizes[pool] :
        AtLimit(pool) /\ OpenBegin(pool, e, s)

\* C7 as stated: the active positions stay within the limits, and an
\* open_position call made at a limit returns without a buy, changing nothing.
LimitsAndNothingChanged ==
    [][/\ CountsWithinLimits'
       /\ OpenCallAtLimit(LimitBounds) => scan_pc' = "idle" /\ UNCHANGED vars]_vars

\* C7, amended: the active positions stay within the limits, and an
\* open_position call made at a limit returns without a buy, changing no
\* position, no capital figure and no statistic; the one thing it may change
\* is is_paused, which it clears when a pause has run out.
LimitsAndOnlyPauseCleared ==
    [][/\ CountsWithinLimits'
       /\ OpenCallAtLimit(LimitBounds)
          => /\ scan_pc' = "idle"
             /\ UNCHANGED <<now, pos, positions, next_id, available_capital,
                            safe_pool_capital, hunt_pool_capital, daily_pnl, daily_trades,
                            consecutive_losses, pause_until, scan_pc, open_req, tick_pc,
                            tick_queue, tp_idx, hist, sell_failures, ticks>>
             /\ is_paused' # is_paused => is_paused /\ ~PauseActive]_vars

\* C7's case: the HUNT pool is full while a tick is under way, no call is in
\* flight, and a pause that has run out has been cleared
FullPoolPauseCleared ==
    /\ Cardinality({i \in positions : pos[i].pool = "HUNT"}) = 2
    /\ tick_pc # "idle"
    /\ scan_pc = "idle"
    /\ ~is_paused
    /\ pause_until # None
    /\ now >= pause_until[1]

\* C8: under every interleaving of the loops both pool capitals stay >= 0,
\* and what a new position takes from its pool is its size and is no more
\* than the pool holds at that moment.
NeverOvercommitted ==
    [][/\ safe_pool_capital' >= 0
       /\ hunt_pool_capital' >= 0
       /\ next_id' = next_id + 1 =>
             LET p == pos'[next_id]
                 before == IF p.pool = "SAFE" THEN safe_pool_capital ELSE hunt_pool_capital
                 after == IF p.pool = "SAFE" THEN safe_pool_capital' ELSE hunt_pool_capital'
             IN  /\ before - after = p.entry_value
                 /\ before - after <= before
                 /\ before - after > 0]_vars

\* C8's case: a position was opened at 90% of what its pool had left, its buy
\* awaited while a tick was under way
ResizedOpenDuringTick ==
    /\ tick_pc # "idle"
    /\ \E id \in positions :
          /\ pos[id].entry_value < max_position_size * Dollar
          /\ pos[id].entry_value >= min_position_size * Dollar
          /\ id = next_id - 1

\* ------------------------------------------------------------------------
\* the confluence engine (src/engines/confluence_engine.py)

\* Text is a sequence of characters.  The lower case of each upper-case letter:
lower_case ==
    [A |-> "a", B |-> "b", C |-> "c", D |-> "d", E |-> "e", F |-> "f", G |-> "g",
     H |-> "h", I |-> "i", J |-> "j", K |-> "k", L |-> "l", M |-> "m", N |-> "n",
     O |-> "o", P |-> "p", Q |-> "q", R |-> "r", S |-> "s", T |-> "t", U |-> "u",
     V |-> "v", W |-> "w", X |-> "x", Y |-> "y", Z |-> "z"]

\* str.lower()
lower(r) ==
    [i \in DOMAIN r |-> IF r[i] \in DOMAIN lower_case THEN lower_case[r[i]] ELSE r[i]]

\* k in r
contains(k, r) ==
    \E i \in 1..(Len(r) - Len(k) + 1) : SubSeq(r, i, i + Len(k) - 1) = k

\* a number as an f-string formats it: digits and punctuation
Digits == <<"0">>

\* the fixed text of the rejection reasons and red flags
text_safety_check_failed ==
    <<"S", "a", "f", "e", "t", "y", " ", "c", "h", "e", "c", "k", " ", "f", "a", "i", "l",
      "e", "d", ":", " ">>

text_low_liquidity ==
    <<"L", "o", "w", " ", "l", "i", "q", "u", "i", "d", "i", "t", "y", ":", " ", "$">>

text_suspicious_liquidity ==
    <<"S", "u", "s", "p", "i", "c", "i", "o", "u", "s", " ", "l", "i", "q", "u", "i", "d",
      "i", "t", "y", " ", "p", "a", "t", "t", "e", "r", "n">>

text_too_few_holders ==
    <<"T", "o", "o", " ", "f", "e", "w", " ", "h", "o", "l", "d", "e", "r", "s", ":", " ">>

text_too_concentrated ==
    <<"T", "o", "o", " ", "c", "o", "n", "c", "e", "n", "t", "r", "a", "t", "e", "d", ":",
      " ">>

text_heavy_selling ==
    <<"H", "e", "a", "v", "y", " ", "s", "e", "l", "l", "i", "n", "g", ":", " ">>

text_price_dumping ==
    <<"P", "r", "i", "c", "e", " ", "d", "u", "m", "p", "i", "n", "g", ":", " ">>

text_token_too_old ==
    <<"T", "o", "k", "e", "n", " ", "t", "o", "o", " ", "o", "l", "d", ":", " ">>

text_red_flag ==
    <<"R", "e", "d", " ", "f", "l", "a", "g", ":", " ">>

text_mint_function ==
    <<"M", "i", "n", "t", " ", "f", "u", "n", "c", "t", "i", "o", "n">>

text_proxy_contract ==
    <<"P", "r", "o", "x", "y", " ", "c", "o", "n", "t", "r", "a", "c", "t">>

text_can_pause_trading ==
    <<"C", "a", "n", " ", "p", "a", "u", "s", "e", " ", "t", "r", "a", "d", "i", "n", "g">>

text_high_tax ==
    <<"H", "i", "g", "h", " ", "t", "a", "x", ":", " ">>

text_recent_dump ==
    <<"R", "e", "c", "e", "n", "t", " ", "d", "u", "m", "p", ":", " ">>

text_percent_sign ==
    <<"%">>

text_percent_buys ==
    <<"%", " ", "b", "u", "y", "s">>

text_minutes_suffix ==
    <<" ", "m", "i", "n">>

\* SafetyStatus (src/engines/safety_engine.py): the value of each member
status_value(status) ==
    CASE status = "SAFE" -> <<"s", "a", "f", "e">>
      [] status = "WARNING" -> <<"w", "a", "r", "n", "i", "n", "g">>
      [] status = "DANGEROUS" -> <<"d", "a", "n", "g", "e", "r", "o", "u", "s">>
      [] status = "UNKNOWN" -> <<"u", "n", "k", "n", "o", "w", "n">>

\* the keywords without "dump"
critical_keywords_without_dump ==
    {<<"h", "o", "n", "e", "y", "p", "o", "t">>,
     <<"s", "a", "f", "e", "t", "y">>,
     <<"c", "o", "n", "c", "e", "n", "t", "r", "a", "t", "e", "d">>}

\* _make_decision: the keywords of a critical rejection
critical_keywords ==
    {<<"h", "o", "n", "e", "y", "p", "o", "t">>,
     <<"s", "a", "f", "e", "t", "y">>,
     <<"c", "o", "n", "c", "e", "n", "t", "r", "a", "t", "e", "d">>,
     <<"d", "u", "m", "p">>}

\* ConfluenceConfig.weights (src/config/settings.py)
signal_weights ==
    [safety_passed |-> 2, liquidity_healthy |-> 1, holders_distributed |-> 1,
     volume_increasing |-> 1, buy_pressure_high |-> 1, momentum_bullish |-> 2,
     smart_money_buying |-> 2, social_buzz |-> 1, fresh_token |-> 1, no_red_flags |-> 1]

RECURSIVE sum_weights(_, _)
\* sum(weights[name] for name in names)
sum_weights(weights, names) ==
    IF names = {} THEN 0
    ELSE LET n == CHOOSE n \in names : TRUE
         IN  weights[n] + sum_weights(weights, names \ {n})

\* result.max_weight = sum(self.signal_weights.values())
max_weight == sum_weights(signal_weights, DOMAIN signal_weights)

\* ConfluenceSignal(name, active, weight = the configured weight if active else 0)
ConfluenceSignal(name, active) ==
    [name |-> name, active |-> active,
     weight |-> IF active THEN signal_weights[name] ELSE 0]

\* TradingConfig: "Safety requirements" (src/config/settings.py)
min_holders == 20
max_top_holder_percent == 20
min_liquidity_usd == 3000

\* each _check_* appends one signal and its rejection reasons: [signal, rejections]
check_safety(safety) ==
    LET active == safety.status = "SAFE"
    IN  [signal |-> ConfluenceSignal("safety_passed", active),
         rejections |-> IF active THEN << >>
                        ELSE <<text_safety_check_failed \o status_value(safety.status)>>]

check_liquidity(pair) ==
    LET active == pair.liquidity_usd >= min_liquidity_usd
        suspicious == pair.liquidity_usd > pair.volume_24h * 10 /\ pair.volume_24h < 1000
    IN  [signal |-> ConfluenceSignal("liquidity_healthy", active /\ ~suspicious),
         rejections |-> (IF active THEN << >> ELSE <<text_low_liquidity \o Digits>>)
                        \o (IF suspicious THEN <<text_suspicious_liquidity>> ELSE << >>)]

check_holders(safety) ==
    LET active == /\ safety.holder_count >= min_holders
                  /\ safety.top_holder_percent <= max_top_holder_percent
    IN  [signal |-> ConfluenceSignal("holders_distributed", active),
         rejections |->
            (IF safety.holder_count < min_holders
             THEN <<text_too_few_holders \o Digits>> ELSE << >>)
            \o (IF safety.top_holder_percent > max_top_holder_percent
                THEN <<text_too_concentrated \o Digits \o text_percent_sign>> ELSE << >>)]

\* TokenPair.volume_trend (src/scanners/dexscreener.py): volume_1h against a
\* sixth of volume_6h, times 2 and times 0.5
volume_trend(pair) ==
    IF pair.volume_1h * 6 > pair.volume_6h * 2 THEN "INCREASING"
    ELSE IF pair.volume_1h * 6 * 2 < pair.volume_6h THEN "DECREASING"
    ELSE "STABLE"

check_volume(pair) ==
    LET vol_trend == volume_trend(pair)
        active == vol_trend = "INCREASING" \/ (vol_trend = "STABLE" /\ pair.volume_1h > 1000)
    IN  [signal |-> ConfluenceSignal("volume_increasing", active), rejections |-> << >>]

\* TokenPair.buy_pressure_1h >= percent / 100, the pressure being
\* buys / (buys + sells), or 0.5 when there were no transactions
buy_pressure_at_least(pair, percent) ==
    LET total == pair.txns_buys_1h + pair.txns_sells_1h
    IN  IF total > 0 THEN pair.txns_buys_1h * 100 >= percent * total
        ELSE 50 >= percent

check_buy_pressure(pair) ==
    [signal |-> ConfluenceSignal("buy_pressure_high", buy_pressure_at_least(pair, 55)),
     rejections |-> IF ~buy_pressure_at_least(pair, 40)
                    THEN <<text_heavy_selling \o Digits \o text_percent_buys>> ELSE << >>]

check_momentum(momentum) ==
    LET active == momentum.trend = "BULLISH" \/ momentum.signal \in {"BUY", "STRONG_BUY"}
    IN  [signal |-> ConfluenceSignal("momentum_bullish", active),
         rejections |-> IF momentum.is_dumping
                        THEN <<text_price_dumping \o Digits \o text_percent_sign>> ELSE << >>]

\* smart_money is Optional: None, or the number of smart wallets buying
check_smart_money(smart_money) ==
    [signal |-> ConfluenceSignal("smart_money_buying",
                                 smart_money # None /\ smart_money[1] >= 2),
     rejections |-> << >>]

\* _check_social as it would be with a data source that reports buzz
check_social_wired ==
    [signal |-> ConfluenceSignal("social_buzz", TRUE), rejections |-> << >>]

check_social ==
    [signal |-> ConfluenceSignal("social_buzz", FALSE), rejections |-> << >>]

check_age(pair) ==
    LET age == pair.age_minutes
        fresh == age <= 30
        established == 30 <= age /\ age <= 240
    IN  [signal |-> ConfluenceSignal("fresh_token", fresh \/ established),
         rejections |-> IF age > 240
                        THEN <<text_token_too_old \o Digits \o text_minutes_suffix>>
                        ELSE << >>]

\* the red_flags list of _check_red_flags
red_flags(safety, pair) ==
    (IF safety.has_mint THEN <<text_mint_function>> ELSE << >>)
    \o (IF safety.is_proxy THEN <<text_proxy_contract>> ELSE << >>)
    \o (IF safety.can_pause THEN <<text_can_pause_trading>> ELSE << >>)
    \o (IF safety.tax_buy > 5 \/ safety.tax_sell > 5
        THEN <<text_high_tax \o Digits \o text_percent_sign>> ELSE << >>)
    \o (IF pair.price_change_5m < 0 - 20
        THEN <<text_recent_dump \o Digits \o text_percent_sign>> ELSE << >>)

check_red_flags(safety, pair) ==
    LET flags == red_flags(safety, pair)
    IN  [signal |-> ConfluenceSignal("no_red_flags", Len(flags) = 0),
         rejections |-> [i \in DOMAIN flags |-> text_red_flag \o flags[i]]]

\* the ten checks in the order analyze runs them
checks(c) ==
    << check_safety(c.safety), check_liquidity(c.pair), check_holders(c.safety),
       check_volume(c.pair), check_buy_pressure(c.pair), check_momentum(c.momentum),
       check_smart_money(c.smart_money), check_social, check_age(c.pair),
       check_red_flags(c.safety, c.pair) >>

RECURSIVE all_rejections(_)
\* result.rejection_reasons after the checks
all_rejections(cs) ==
    IF cs = << >> THEN << >> ELSE Head(cs).rejections \o all_rejections(Tail(cs))

RECURSIVE active_weight(_)
\* sum(s.weight for s in result.signals if s.active)
active_weight(signals) ==
    IF signals = << >> THEN 0
    ELSE (IF Head(signals).active THEN Head(signals).weight ELSE 0)
         + active_weight(Tail(signals))

\* any(k in r.lower() for k in ["honeypot", "safety", "concentrated", "dump"]),
\* matching the text as written instead of its lower case
is_critical_as_written(r) == \E text \in {r} : \E k \in critical_keywords : contains(k, text)

\* any(k in r.lower() for k in ["honeypot", "safety", "concentrated", "dump"])
is_critical(r) == \E text \in {lower(r)} : \E k \in critical_keywords : contains(k, text)

\* critical_rejections is not empty
has_critical(rejection_reasons) ==
    \E r \in {rejection_reasons[i] : i \in DOMAIN rejection_reasons} : is_critical(r)

\* the HUNT test of _make_decision with strict comparisons
hunt_entry_strict(active_signals, total_score) ==
    active_signals > HUNT_POOL.min_confluence /\ total_score > HUNT_POOL.min_score

\* the HUNT test of _make_decision
hunt_entry(active_signals, total_score) ==
    active_signals >= HUNT_POOL.min_confluence /\ total_score >= HUNT_POOL.min_score

\* the SAFE test of _make_decision
safe_entry(active_signals, total_score) ==
    active_signals >= SAFE_POOL.min_confluence /\ total_score >= SAFE_POOL.min_score

\* ConfluenceResult() as constructed, before any check.  confidence is the
\* fraction num/den; position_size_percent is in tenths of a percent.
NewResult ==
    [signals |-> << >>, active_signals |-> 0, total_weight |-> 0, max_weight |-> 0,
     should_enter |-> FALSE, recommended_pool |-> None,
     confidence |-> [num |-> 0, den |-> 1], position_size_percent |-> 0,
     risk_level |-> "MEDIUM", rejection_reasons |-> << >>]

\* confidence >= percent
confidence_at_least(confidence, percent) == confidence.num >= percent * confidence.den

\* "Cap position size"
cap_size(r) == [r EXCEPT !.position_size_percent = IF @ < 20 * 10 THEN @ ELSE 20 * 10]

\* the pool's size kept whatever the confidence
adjust_size_unscaled(r) == cap_size(r)

\* "Adjust position size based on confidence"
adjust_size(r) ==
    IF ~r.should_enter THEN r
    ELSE IF confidence_at_least(r.confidence, 80)
    THEN cap_size([r EXCEPT !.position_size_percent = (@ * 12) \div 10,
                            !.risk_level = IF r.recommended_pool = Some("SAFE")
                                           THEN "LOW" ELSE "MEDIUM"])
    ELSE IF ~confidence_at_least(r.confidence, 60)
    THEN cap_size([r EXCEPT !.position_size_percent = (@ * 8) \div 10,
                            !.risk_level = "HIGH"])
    ELSE cap_size(r)

\* _make_decision from "Determine pool" on
determine_pool(r, score, pair) ==
    IF pair.age_minutes <= 30
    THEN IF hunt_entry(r.active_signals, score.total_score)
         THEN adjust_size([r EXCEPT !.should_enter = TRUE,
                                    !.recommended_pool = Some("HUNT"),
                                    !.position_size_percent =
                                        HUNT_POOL.position_size_percent * 10,
                                    !.risk_level = "HIGH"])
         ELSE r
    ELSE IF safe_entry(r.active_signals, score.total_score)
         THEN adjust_size([r EXCEPT !.should_enter = TRUE,
                                    !.recommended_pool = Some("SAFE"),
                                    !.position_size_percent =
                                        SAFE_POOL.position_size_percent * 10,
                                    !.risk_level = "MEDIUM"])
         ELSE r

\* _make_decision(result, score, pair)
make_decision(result, score, pair) ==
    IF has_critical(result.rejection_reasons)
    THEN [result EXCEPT !.should_enter = FALSE, !.confidence = [num |-> 0, den |-> 1]]
    ELSE determine_pool([result EXCEPT !.confidence =
                            IF result.max_weight > 0
                            THEN [num |-> result.total_weight * 100,
                                  den |-> result.max_weight]
                            ELSE [num |-> 0, den |-> 1]],
                        score, pair)

\* analyze up to "Make decision": the result after the checks cs
count_signals(cs) ==
    [NewResult EXCEPT
        !.max_weight = max_weight,
        !.signals = [i \in DOMAIN cs |-> cs[i].signal],
        !.rejection_reasons = all_rejections(cs),
        !.active_signals = Cardinality({i \in DOMAIN cs : cs[i].signal.active}),
        !.total_weight = active_weight([i \in DOMAIN cs |-> cs[i].signal])]

\* ConfluenceEngine.analyze(chain, pair, safety, score, momentum, smart_money)
analyze(c) == make_decision(count_signals(checks(c)), c.score, c.pair)

\* the first call of analyze, on any of the inputs C
Analyze(C) ==
    /\ eng = NoCall
    /\ \E c \in C : eng' = [kind |-> "analyze", call |-> c, result |-> analyze(c)]
    /\ UNCHANGED <<now, pos, positions, next_id, available_capital, safe_pool_capital,
                   hunt_pool_capital, daily_pnl, daily_trades, consecutive_losses,
                   is_paused, pause_until, scan_pc, open_req, tick_pc, tick_queue,
                   tp_idx, hist, sell_failures, ticks, bot, rpc, db>>

\* the inputs of analyze on either side of each of its comparisons
SafetyReports ==
    { [status |-> st, holder_count |-> h[1], top_holder_percent |-> h[2],
       has_mint |-> f[1], is_proxy |-> FALSE, can_pause |-> FALSE,
       tax_buy |-> f[2], tax_sell |-> 0] :
         st \in {"SAFE", "DANGEROUS"},
         h \in {<<19, 20>>, <<20, 20>>, <<20, 21>>},
         f \in {<<FALSE, 5>>, <<TRUE, 5>>, <<FALSE, 6>>} }

TokenPairs ==
    { [liquidity_usd |-> l[1], volume_24h |-> l[2], volume_1h |-> v[1], volume_6h |-> v[2],
       txns_buys_1h |-> t[1], txns_sells_1h |-> t[2], age_minutes |-> age,
       price_change_5m |-> change] :
         l \in {<<2000, 5000>>, <<20000, 500>>, <<20000, 5000>>},
         v \in {<<500, 600>>, <<500, 12000>>, <<2000, 12000>>},
         t \in {<<0, 0>>, <<39, 61>>, <<55, 45>>},
         age \in {30, 31, 241},
         change \in {0 - 21, 0 - 20} }

MomentumSignals ==
    { [trend |-> m[1], signal |-> m[2], is_dumping |-> m[3]] :
         m \in {<<"NEUTRAL", "HOLD", FALSE>>, <<"BULLISH", "HOLD", FALSE>>,
                <<"NEUTRAL", "STRONG_BUY", FALSE>>, <<"BEARISH", "SELL", TRUE>>} }

SmartMoney == {None, Some(2)}

ScoreBreakdowns == { [total_score |-> n] : n \in {64, 65, 74, 75} }

AnalyzeCalls ==
    { [safety |-> safety, pair |-> pair, momentum |-> momentum,
       smart_money |-> smart_money, score |-> score] :
         safety \in SafetyReports, pair \in TokenPairs, momentum \in MomentumSignals,
         smart_money \in SmartMoney, score \in ScoreBreakdowns }

NextConfluence == Analyze(AnalyzeCalls)
SpecConfluence == Init /\ [][NextConfluence]_vars

\* ------------------------------------------------------------------------
\* properties of the confluence engine (SpecConfluence)

\* analyze has returned
Analyzed == eng.kind = "analyze"

\* the configured weights of the signals of a result that are active
WeightOfActive(signals) ==
    sum_weights(signal_weights, {signals[i].name : i \in {j \in DOMAIN signals : signals[j].active}})

\* one of the rejection reasons of the result contains, in lower case, one of
\* the critical keywords
CriticalReasonGiven ==
    \E r \in {lower(eng.result.rejection_reasons[i]) :
                 i \in DOMAIN eng.result.rejection_reasons} :
        \E k \in critical_keywords : contains(k, r)

\* C11: every result analyze returns, the ones refused for a critical
\* rejection reason included, has confidence = total_weight / max_weight * 100,
\* and total_weight is the sum of the weights of the active signals.
ConfidenceIsWeightRatio ==
    Analyzed =>
        /\ eng.result.total_weight = WeightOfActive(eng.result.signals)
        /\ eng.result.confidence.num * eng.result.max_weight
              = eng.result.total_weight * 100 * eng.result.confidence.den

\* the part of C11 that holds: total_weight is the sum of the weights of the active
\* signals, and without a critical rejection reason confidence is the ratio
WeightSummedAndRatioUnlessCritical ==
    Analyzed =>
        /\ eng.result.total_weight = WeightOfActive(eng.result.signals)
        /\ ~CriticalReasonGiven
           => eng.result.confidence.num * eng.result.max_weight
                 = eng.result.total_weight * 100 * eng.result.confidence.den

\* a result refused for a critical reason whose active signals carry weight
CriticalWithWeight ==
    /\ Analyzed
    /\ eng.result.total_weight > 0
    /\ eng.result.confidence.num = 0
    /\ ~eng.result.should_enter

\* how many of the signals of the result are active
ActiveCount == Cardinality({i \in DOMAIN eng.result.signals : eng.result.signals[i].active})

\* C12: for a token of age <= 30 minutes without a critical rejection reason,
\* should_enter holds iff active_signals >= 2 and the total score >= 65 (so 2
\* signals with score 65 enter and score 64 does not), and the pool is HUNT.
HuntThresholdInclusive ==
    (Analyzed /\ eng.call.pair.age_minutes <= 30 /\ ~CriticalReasonGiven) =>
        /\ eng.result.should_enter <=> (ActiveCount >= 2 /\ eng.call.score.total_score >= 65)
        /\ eng.result.should_enter => eng.result.recommended_pool = Some("HUNT")

\* exactly 2 active signals and score 65 entered the HUNT pool
HuntEnteredAtBothBounds ==
    /\ Analyzed
    /\ eng.call.pair.age_minutes <= 30
    /\ ~CriticalReasonGiven
    /\ ActiveCount = 2
    /\ eng.call.score.total_score = 65
    /\ eng.result.should_enter
    /\ eng.result.recommended_pool = Some("HUNT")

\* C13: when a rejection reason contains one of the keywords honeypot, safety,
\* concentrated, dump in any case, should_enter is false and no pool is
\* recommended, whatever the score and the active signals.
CriticalNeverEnters ==
    (Analyzed /\ CriticalReasonGiven) =>
        ~eng.result.should_enter /\ eng.result.recommended_pool = None

\* refused for "Safety check failed" although the score and the other signals
\* are enough for either pool
CriticalRefusedDespiteSignals ==
    /\ Analyzed
    /\ CriticalReasonGiven
    /\ eng.call.safety.status # "SAFE"
    /\ ActiveCount >= 5
    /\ eng.call.score.total_score = 75
    /\ ~eng.result.should_enter

\* ------------------------------------------------------------------------
\* the scoring engine (src/engines/scoring_engine.py)

\* ScoringWeights (src/config/settings.py)
SCORING_WEIGHTS ==
    [liquidity |-> 20, holders |-> 20, trading_activity |-> 25, momentum |-> 20,
     social_signals |-> 10, dev_reputation |-> 5]

\* max_score * 0.xx, in hundredths of a point
part(max_score, hundredths) == max_score * hundredths

\* int(x) of a value that is not negative, given in hundredths of a point
int(x) == x \div 100

\* _score_liquidity
score_liquidity(pair) ==
    LET liq == pair.liquidity_usd
        max_score == SCORING_WEIGHTS.liquidity
    IN  IF liq < min_liquidity_usd THEN 0
        ELSE IF liq >= 100000 THEN max_score
        ELSE IF liq >= 50000 THEN int(part(max_score, 90))
        ELSE IF liq >= 20000 THEN int(part(max_score, 75))
        ELSE IF liq >= 10000 THEN int(part(max_score, 60))
        ELSE IF liq >= 5000 THEN int(part(max_score, 40))
        ELSE int(part(max_score, 20))

\* _score_holders
score_holders(safety) ==
    LET max_score == SCORING_WEIGHTS.holders
        holders == safety.holder_count
        top_percent == safety.top_holder_percent
        holder_score ==
            IF holders >= 1000 THEN part(max_score, 50)
            ELSE IF holders >= 500 THEN part(max_score, 40)
            ELSE IF holders >= 200 THEN part(max_score, 30)
            ELSE IF holders >= 50 THEN part(max_score, 20)
            ELSE part(max_score, 10)
        dist_score ==
            IF top_percent <= 5 THEN part(max_score, 50)
            ELSE IF top_percent <= 10 THEN part(max_score, 40)
            ELSE IF top_percent <= 15 THEN part(max_score, 25)
            ELSE IF top_percent <= max_top_holder_percent THEN part(max_score, 10)
            ELSE 0
    IN  int(holder_score + dist_score)

\* vol_24h / liquidity_usd >= 1 / parts, the ratio being 0 without liquidity
vol_liq_ratio_at_least(pair, parts) ==
    IF pair.liquidity_usd > 0 THEN pair.volume_24h * parts >= pair.liquidity_usd
    ELSE FALSE

\* _score_trading
score_trading(pair) ==
    LET max_score == SCORING_WEIGHTS.trading_activity
        vol_score ==
            IF vol_liq_ratio_at_least(pair, 1) THEN part(max_score, 40)
            ELSE IF vol_liq_ratio_at_least(pair, 2) THEN part(max_score, 35)
            ELSE IF vol_liq_ratio_at_least(pair, 5) THEN part(max_score, 25)
            ELSE IF vol_liq_ratio_at_least(pair, 10) THEN part(max_score, 15)
            ELSE part(max_score, 5)
        bp_score ==
            IF buy_pressure_at_least(pair, 70) THEN part(max_score, 35)
            ELSE IF buy_pressure_at_least(pair, 60) THEN part(max_score, 30)
            ELSE IF buy_pressure_at_least(pair, 50) THEN part(max_score, 20)
            ELSE IF buy_pressure_at_least(pair, 40) THEN part(max_score, 10)
            ELSE 0
        txn_count == pair.txns_buys_1h + pair.txns_sells_1h
        txn_score ==
            IF txn_count >= 100 THEN part(max_score, 25)
            ELSE IF txn_count >= 50 THEN part(max_score, 20)
            ELSE IF txn_count >= 20 THEN part(max_score, 15)
            ELSE part(max_score, 5)
    IN  int(vol_score + bp_score + txn_score)

\* _score_momentum
score_momentum(pair) ==
    LET max_score == SCORING_WEIGHTS.momentum
        change_5m == pair.price_change_5m
        change_1h == pair.price_change_1h
        short_score ==
            IF change_5m > 10 THEN part(max_score, 30)
            ELSE IF change_5m > 5 THEN part(max_score, 25)
            ELSE IF change_5m > 0 THEN part(max_score, 15)
            ELSE IF change_5m > 0 - 5 THEN part(max_score, 10)
            ELSE 0
        med_score ==
            IF change_1h > 20 THEN part(max_score, 35)
            ELSE IF change_1h > 10 THEN part(max_score, 30)
            ELSE IF change_1h > 0 THEN part(max_score, 20)
            ELSE IF change_1h > 0 - 10 THEN part(max_score, 10)
            ELSE 0
        vol_trend == volume_trend(pair)
        trend_score ==
            IF vol_trend = "INCREASING" THEN part(max_score, 35)
            ELSE IF vol_trend = "STABLE" THEN part(max_score, 20)
            ELSE part(max_score, 5)
    IN  int(short_score + med_score + trend_score)

\* _score_social; social_data and smart_money_data are Optional: None, or the
\* number of mentions and of smart wallets buying
score_social(social_data, smart_money_data) ==
    LET max_score == SCORING_WEIGHTS.social_signals
        smart ==
            IF smart_money_data = None THEN 0
            ELSE IF smart_money_data[1] >= 3 THEN part(max_score, 50)
            ELSE IF smart_money_data[1] >= 1 THEN part(max_score, 30)
            ELSE 0
        social ==
            IF social_data = None THEN 0
            ELSE IF social_data[1] > 100 THEN part(max_score, 30)
            ELSE IF social_data[1] > 20 THEN part(max_score, 15)
            ELSE 0
    IN  int(IF smart + social < max_score * 100 THEN smart + social ELSE max_score * 100)

\* _score_dev
\* _score_dev returning the score without the floor at 0
score_dev_unfloored(safety) ==
    SCORING_WEIGHTS.dev_reputation
    - (IF safety.has_mint THEN 2 ELSE 0)
    - (IF safety.is_proxy THEN 2 ELSE 0)
    - (IF ~safety.lp_locked THEN 1 ELSE 0)
    - (IF ~safety.is_renounced THEN 1 ELSE 0)

score_dev(safety) ==
    LET score ==
            SCORING_WEIGHTS.dev_reputation
            - (IF safety.has_mint THEN 2 ELSE 0)
            - (IF safety.is_proxy THEN 2 ELSE 0)
            - (IF ~safety.lp_locked THEN 1 ELSE 0)
            - (IF ~safety.is_renounced THEN 1 ELSE 0)
    IN  IF score > 0 THEN score ELSE 0

\* _apply_modifiers(pair, safety, breakdown): the score after the age, market-cap
\* and safety-status modifiers
apply_modifiers(pair, safety, total_score) ==
    total_score
    + (IF pair.age_minutes < 10 THEN 5
       ELSE IF pair.age_minutes < 30 THEN 3
       ELSE IF pair.age_minutes > 180 THEN 0 - 5
       ELSE 0)
    + (IF pair.market_cap > 0
       THEN IF pair.market_cap < 50000 THEN 3
            ELSE IF pair.market_cap > 10000000 THEN 0 - 5
            ELSE 0
       ELSE 0)
    + (IF safety.status = "SAFE" THEN 5
       ELSE IF safety.status = "WARNING" THEN 0 - 10
       ELSE IF safety.status = "DANGEROUS" THEN 0 - 30
       ELSE 0)

\* "Clamp to 0-100" left out
clamp_missing(x) == x

\* "Clamp to 0-100": max(0, min(100, x))
clamp(x) == IF x > 100 THEN 100 ELSE IF x < 0 THEN 0 ELSE x

\* score up to "Calculate total": the six parts of a ScoreBreakdown
score_parts(c) ==
    [liquidity_score |-> score_liquidity(c.pair),
     holders_score |-> score_holders(c.safety),
     trading_score |-> score_trading(c.pair),
     momentum_score |-> score_momentum(c.pair),
     social_score |-> score_social(c.social_data, c.smart_money_data),
     dev_score |-> score_dev(c.safety)]

\* "Calculate total"
sum_parts(b) ==
    b.liquidity_score + b.holders_score + b.trading_score + b.momentum_score
    + b.social_score + b.dev_score

\* score from "Apply bonuses and penalties" on
with_total(breakdown, pair, safety) ==
    [total_score |-> clamp(apply_modifiers(pair, safety, sum_parts(breakdown))),
     max_possible |-> 100] @@ breakdown

\* ScoringEngine.score(pair, safety, momentum_data, social_data, smart_money_data)
score(c) == with_total(score_parts(c), c.pair, c.safety)

\* the first call of score, on any of the inputs C
Score(C) ==
    /\ eng = NoCall
    /\ \E c \in C : eng' = [kind |-> "score", call |-> c, result |-> score(c)]
    /\ UNCHANGED <<now, pos, positions, next_id, available_capital, safe_pool_capital,
                   hunt_pool_capital, daily_pnl, daily_trades, consecutive_losses,
                   is_paused, pause_until, scan_pc, open_req, tick_pc, tick_queue,
                   tp_idx, hist, sell_failures, ticks, bot, rpc, db>>

\* the inputs of score: the best, the worst and a middle tier of each part, and
\* every branch of the modifiers
ScoredSafety ==
    { [status |-> st, holder_count |-> h[1], top_holder_percent |-> h[2],
       has_mint |-> ~clean, is_proxy |-> ~clean, lp_locked |-> clean,
       is_renounced |-> clean] :
         st \in {"SAFE", "WARNING", "DANGEROUS", "UNKNOWN"},
         h \in {<<10, 25>>, <<200, 15>>, <<1000, 5>>},
         clean \in BOOLEAN }

ScoredPairs ==
    { [liquidity_usd |-> l[1], volume_24h |-> l[2], volume_1h |-> v[1], volume_6h |-> v[2],
       txns_buys_1h |-> t[1], txns_sells_1h |-> t[2],
       price_change_5m |-> ch[1], price_change_1h |-> ch[2],
       age_minutes |-> age, market_cap |-> cap] :
         l \in {<<2000, 100>>, <<20000, 5000>>, <<100000, 100000>>},
         v \in {<<500, 12000>>, <<2000, 600>>},
         t \in {<<0, 0>>, <<39, 61>>, <<70, 30>>},
         ch \in {<<0 - 5, 0 - 10>>, <<6, 11>>, <<11, 21>>},
         age \in {5, 20, 100, 181},
         cap \in {0, 40000, 20000000} }

ScoreCalls ==
    { [pair |-> pair, safety |-> safety, social_data |-> social,
       smart_money_data |-> smart] :
         pair \in ScoredPairs, safety \in ScoredSafety,
         social \in {None, Some(101)}, smart \in {None, Some(3)} }

NextScore == Score(ScoreCalls)
SpecScore == Init /\ [][NextScore]_vars

\* ------------------------------------------------------------------------
\* properties of the scoring engine (SpecScore)

\* score has returned
Scored == eng.kind = "score"

\* the score of the call before the clamp
Unclamped ==
    apply_modifiers(eng.call.pair, eng.call.safety, sum_parts(eng.result))

\* C14: the six configured scoring maxima sum to exactly 100, and the
\* total_score that score returns lies in 0..100 whatever the age, market-cap
\* and safety-status modifiers add or subtract.
TotalScoreInRange ==
    /\ SCORING_WEIGHTS.liquidity + SCORING_WEIGHTS.holders
       + SCORING_WEIGHTS.trading_activity + SCORING_WEIGHTS.momentum
       + SCORING_WEIGHTS.social_signals + SCORING_WEIGHTS.dev_reputation = 100
    /\ Scored => eng.result.total_score >= 0 /\ eng.result.total_score <= 100

\* the bonuses for age, market cap and safety status took the sum of the six
\* parts past 100, and the returned total is 100
BonusesClampedAtHundred ==
    /\ Scored
    /\ sum_parts(eng.result) <= 100
    /\ Unclamped > 100
    /\ eng.result.total_score = 100

\* the penalties took the sum of the six parts below 0, and the returned total
\* is 0
PenaltiesClampedAtZero ==
    /\ Scored
    /\ sum_parts(eng.result) > 0
    /\ Unclamped < 0
    /\ eng.result.total_score = 0

\* ------------------------------------------------------------------------
\* further properties of one position's life (Spec)

\* the monitoring loop takes its _check_time_exit step for an active position
TimeExitStep == TickStep /\ tick_pc = "time" /\ Cur \in positions

\* C15: at the time-exit check of a tick with a valid price, a position older
\* than its pool's flat_exit_minutes with |pnl_percent| < 10 is closed with the
\* exit reason "stagnant" (when its closing sell succeeds), whether or not the
\* price moved; one with |pnl_percent| >= 10 is not closed by this check.
TimeExitClosesAsStagnant ==
    [][(TimeExitStep /\ now - pos[Cur].entry_time > PoolConfig(pos[Cur].pool).flat_exit_minutes)
          => IF Abs(pos[Cur].pnl_percent) < 10
             THEN ~SellFailed =>
                     /\ Cur \notin positions'
                     /\ hist'[Cur].closes = Append(hist[Cur].closes, "stagnant")
             ELSE /\ Cur \in positions'
                  /\ hist'[Cur].closes = hist[Cur].closes]_vars

\* what the program does at the time-exit check: the same, with the exit
\* reason "TIME_EXIT"
TimeExitClosesAsTimeExit ==
    [][(TimeExitStep /\ now - pos[Cur].entry_time > PoolConfig(pos[Cur].pool).flat_exit_minutes)
          => IF Abs(pos[Cur].pnl_percent) < 10
             THEN ~SellFailed =>
                     /\ Cur \notin positions'
                     /\ hist'[Cur].closes = Append(hist[Cur].closes, "TIME_EXIT")
             ELSE /\ Cur \in positions'
                  /\ hist'[Cur].closes = hist[Cur].closes]_vars

\* a position held at a flat price past its flat-exit time has been closed by
\* the time-exit check alone
FlatPositionTimedOut ==
    \E id \in DOMAIN hist :
        /\ hist[id].closes = <<"TIME_EXIT">>
        /\ id \in DOMAIN pos /\ pos[id] # Freed
        /\ pos[id].current_price = pos[id].entry_price
        /\ id \notin positions

\* ------------------------------------------------------------------------
\* shutdown (src/main.py): main's signal handler starts stop() as a task of
\* its own, next to the loops that start() is still gathering

manager_vars ==
    <<now, pos, positions, next_id, available_capital, safe_pool_capital,
      hunt_pool_capital, daily_pnl, daily_trades, consecutive_losses,
      is_paused, pause_until, scan_pc, open_req, tick_pc, tick_queue,
      tp_idx, hist, sell_failures, ticks>>

\* the monitoring loop is suspended in asyncio.sleep or in the price fetch
TickSuspended == tick_pc \in {"idle", "price"}

\* stop() up to its first shutdown call that concerns the monitoring loop:
\* self.running = False, shutdown_event.set(), _save_daily_stats,
\* shutdown_telegram_logger
StopBegin ==
    /\ bot.stop_pc = "none"
    /\ scan_pc = "idle"
    /\ TickSuspended
    /\ bot' = [bot EXCEPT !.running = FALSE, !.stop_pc = "position_manager"]
    /\ UNCHANGED manager_vars
    /\ UNCHANGED <<eng, rpc, db>>

\* shutdown_position_manager: PositionManager.stop saves every position
StopPositionManager ==
    /\ bot.stop_pc = "position_manager"
    /\ TickSuspended
    /\ bot' = [bot EXCEPT !.stop_pc = "execution_engine"]
    /\ UNCHANGED manager_vars
    /\ UNCHANGED <<eng, rpc, db>>

\* shutdown_execution_engine: ExecutionEngine.stop closes the session
StopExecutionEngine ==
    /\ bot.stop_pc = "execution_engine"
    /\ TickSuspended
    /\ bot' = [bot EXCEPT !.execution_session = FALSE, !.stop_pc = "dexscreener"]
    /\ UNCHANGED manager_vars
    /\ UNCHANGED <<eng, rpc, db>>

\* shutdown_wallet_tracker, shutdown_safety_engine, shutdown_dexscreener:
\* DEXScreenerClient.stop closes the session
StopDexscreener ==
    /\ bot.stop_pc = "dexscreener"
    /\ TickSuspended
    /\ bot' = [bot EXCEPT !.dexscreener_session = FALSE, !.stop_pc = "database"]
    /\ UNCHANGED manager_vars
    /\ UNCHANGED <<eng, rpc, db>>

\* shutdown_rpc_manager, shutdown_database: Database.close closes the
\* connection and sets it to None
StopDatabase ==
    /\ bot.stop_pc = "database"
    /\ TickSuspended
    /\ bot' = [bot EXCEPT !.db_connection = FALSE, !.stop_pc = "done"]
    /\ UNCHANGED manager_vars
    /\ UNCHANGED <<eng, rpc, db>>

\* DEXScreenerClient._request: "if not self.session: await self.start()"
request_session(b) == [b EXCEPT !.dexscreener_session = TRUE]

\* _save_position_state with the connection closed: self.connection is None,
\* update_position raises, update_positions logs the error and goes on to the
\* next position
TickSaveRaises ==
    /\ ~bot.db_connection
    /\ TickSave

\* One position at a time held at its entry price, so that no sell falls due;
\* the scan loop is between two candidates when the signal arrives.
StopBounds ==
    [LifeBounds EXCEPT !.prices = {0, PriceUnit}, !.steps = {0}, !.max_sell_failures = 0]

NextStop ==
    \/ \E pool \in StopBounds.pools : \E e \in StopBounds.entries, s \in StopBounds.sizes[pool] :
          /\ tick_pc = "idle"
          /\ positions = {}
          /\ bot.running
          /\ OpenBegin(pool, e, s)
          /\ UNCHANGED <<eng, bot, rpc, db>>
    \/ \E ok \in BOOLEAN :
          (ok => next_id <= StopBounds.max_opens) /\ OpenFinish(ok) /\ UNCHANGED <<eng, bot, rpc, db>>
    \/ \E dt \in StopBounds.steps :
          /\ ticks < StopBounds.max_ticks
          /\ scan_pc = "idle"
          /\ bot.running
          /\ TickBegin(dt)
          /\ UNCHANGED <<eng, bot, rpc, db>>
    \/ \E price \in StopBounds.prices :
          TickPrice(price) /\ bot' = request_session(bot) /\ UNCHANGED <<eng, rpc, db>>
    \/ /\ tick_pc = "sl"
       /\ stop_loss_reason(trailing_ratchet(pos[Head(tick_queue)])) = None
       /\ TickStopLoss(TRUE)
       /\ UNCHANGED <<eng, bot, rpc, db>>
    \/ /\ tick_pc = "time"
       /\ ~time_exit_due(pos[Head(tick_queue)])
       /\ TickTimeExit(TRUE)
       /\ UNCHANGED <<eng, bot, rpc, db>>
    \/ bot.db_connection /\ TickSave /\ UNCHANGED <<eng, bot, rpc, db>>
    \/ TickSaveRaises /\ UNCHANGED <<eng, bot, rpc, db>>
    \/ StopBegin
    \/ StopPositionManager
    \/ StopExecutionEngine
    \/ StopDexscreener
    \/ StopDatabase

SpecStop == Init /\ [][NextStop]_vars

\* ------------------------------------------------------------------------
\* properties of shutdown (SpecStop)

\* a tick is in flight: update_positions has a position in hand
TickInFlight == tick_pc # "idle"

\* C16: shutdown is cooperative.  When stop() runs while a monitoring tick is
\* suspended at an await, the execution and persistence collaborators are
\* shut down only after that tick has run to completion and saved its
\* position, and no step of a tick runs against a closed collaborator.
ShutdownWaitsForTick ==
    [][/\ (bot.execution_session /\ ~bot'.execution_session) => ~TickInFlight
       /\ (bot.db_connection /\ ~bot'.db_connection) => ~TickInFlight
       /\ (TickStep /\ tick_pc = "save") => bot.db_connection]_vars

\* the part of C16 about the tick's own steps: the position is never saved
\* against a closed connection
SaveNeverAgainstClosedDatabase ==
    [][(TickStep /\ tick_pc = "save") => bot.db_connection]_vars

\* ------------------------------------------------------------------------
\* further properties of positions held side by side (SpecPool)

\* the stop or the trailing stop of position q is reached
StopReached(q) ==
    \/ /\ q.trailing_active
       /\ q.current_price
            <= (q.trailing_high * (100 - PoolConfig(q.pool).trailing_stop_percent)) \div 100
    \/ q.current_price <= q.current_stop_loss

\* position p is older than its pool's flat-exit time and has moved less than 10%
FlatTooLong(p) ==
    /\ now - p.entry_time > PoolConfig(p.pool).flat_exit_minutes
    /\ Abs(p.pnl_percent) < 10

\* this step closed position p: it left the active set (or had left it already),
\* its proceeds went back to the capital and the trade was counted
ClosedNow(p) ==
    /\ Cur \notin positions'
    /\ available_capital' = available_capital + p.total_sold_value
                               + p.remaining_quantity * p.current_price
    /\ daily_trades' = daily_trades + 1

\* C17: a pause affects open_position only.  What a monitoring step does is
\* fixed by the position, the price and the clock, whether or not a pause is
\* set: every due take-profit level is sold, a position at its stop or flat
\* beyond its flat-exit time is closed and the ledger updated, any other step
\* leaves the active set and the ledger alone; and the only change a
\* monitoring step makes to the pause itself is to set it, for
\* pause_duration_hours from now.
PauseLeavesMonitoringAlone ==
    [][TickStep =>
          /\ (tick_pc = "price" /\ tick_pc' \in {"tp", "sl"})
             => NextSellIs(DueFrom(pos'[Cur], 1)) /\ UNCHANGED <<positions, ledger>>
          /\ (tick_pc = "tp" /\ ~SellFailed)
             => /\ NextSellIs(DueFrom(pos'[Cur], tp_idx + 1))
                /\ Len(pos'[Cur].tp_levels_hit) = Len(pos[Cur].tp_levels_hit) + 1
                /\ UNCHANGED <<positions, ledger>>
          /\ (tick_pc = "sl" /\ ~SellFailed)
             => IF StopReached(pos'[Cur]) /\ pos[Cur].remaining_quantity > 0
                THEN ClosedNow(pos[Cur])
                ELSE UNCHANGED <<positions, ledger>>
          /\ (tick_pc = "time" /\ ~SellFailed)
             => IF FlatTooLong(pos[Cur]) /\ pos[Cur].remaining_quantity > 0
                THEN ClosedNow(pos[Cur])
                ELSE UNCHANGED <<positions, ledger>>
          /\ tick_pc = "save" => UNCHANGED <<positions, ledger>>
          /\ <<is_paused, pause_until>>' # <<is_paused, pause_until>>
             => is_paused' /\ pause_until' = Some(now + pause_duration_hours * 60)]_vars

\* in the first pass of the monitoring loop the losing close of position 1 set
\* the pause, and under that pause position 2 had its first level sold
SoldWhilePaused ==
    /\ ticks = 1
    /\ tick_pc = "save"
    /\ Cur = 2
    /\ is_paused /\ pause_until # None /\ now < pause_until[1]
    /\ 1 \notin positions
    /\ pos[2].tp_levels_hit = <<1>>
    /\ 2 \in positions

\* ------------------------------------------------------------------------
\* further properties of one position's life (Spec): the ladder

\* the ladder levels whose trigger the price of position q has reached and of
\* which a sell of q's remaining quantity would not be empty
Reached(q) ==
    {j \in 1..Len(TAKE_PROFIT_LADDER) :
        /\ q.current_price * 100 >= q.entry_price * (100 + TAKE_PROFIT_LADDER[j].trigger_percent)
        /\ (q.remaining_quantity * TAKE_PROFIT_LADDER[j].sell_percent) \div 100 > 0}

\* no level is recorded twice in the tp_levels_hit of any position
NoLevelTwice ==
    \A id \in Live :
        \A i, j \in 1..Len(pos[id].tp_levels_hit) :
            i # j => pos[id].tp_levels_hit[i] # pos[id].tp_levels_hit[j]

PriceStep == TickStep /\ tick_pc = "price" /\ tick_pc' \in {"tp", "sl"}

\* a step of the monitoring loop that leaves the position in hand in the map
KeepsInHand ==
    TickStep /\ tick_pc \in {"price", "tp", "sl"} /\ tick_pc' \in {"tp", "sl", "time"}

\* the trailing stop is active exactly from the successful sell of level 4 on,
\* starts at the price of that moment, never decreases, and _check_stop_loss
\* raises the stop to trailing_high * (1 - trailing% / 100)
TrailingActivatedAtLevelFour ==
    /\ [](\A id \in Live : pos[id].trailing_active <=> InSeq(4, pos[id].tp_levels_hit))
    /\ [][KeepsInHand =>
            LET p == pos[Cur]
                q == pos'[Cur]
            IN  /\ (~p.trailing_active /\ q.trailing_active)
                   => /\ tick_pc = "tp" /\ TAKE_PROFIT_LADDER[tp_idx].level = 4 /\ ~SellFailed
                      /\ q.trailing_high = p.current_price
                /\ p.trailing_active => q.trailing_active /\ q.trailing_high >= p.trailing_high
                /\ (tick_pc = "sl" /\ p.trailing_active)
                   => q.current_stop_loss
                        = Max(p.current_stop_loss,
                              (p.trailing_high * (100 - PoolConfig(p.pool).trailing_stop_percent))
                                 \div 100)]_vars

\* C19: the trailing stop becomes active exactly when level 4 of the ladder is
\* executed, with trailing_high = the price of that moment; from then on
\* trailing_high never decreases and is the highest price seen since the
\* activation (each new price raises it when higher), and the trailing-stop
\* price is trailing_high * (1 - trailing% / 100).
TrailingHighFollowsPrices ==
    /\ TrailingActivatedAtLevelFour
    /\ [][(PriceStep /\ pos[Cur].trailing_active)
            => pos'[Cur].trailing_high = Max(pos[Cur].trailing_high, pos'[Cur].current_price)]_vars

\* what the program keeps: trailing_high follows a new price only when that
\* price is above highest_price, the highest price of the position's whole life
TrailingHighFollowsNewHighs ==
    [][(PriceStep /\ pos[Cur].trailing_active)
          => pos'[Cur].trailing_high
               = IF pos'[Cur].current_price > pos[Cur].highest_price
                 THEN pos'[Cur].current_price
                 ELSE pos[Cur].trailing_high]_vars

\* a trailing stop activated below the position's highest price saw a higher
\* price afterwards and did not follow it
TrailingHighBelowLaterPrice ==
    \E id \in Live :
        /\ pos[id].trailing_active
        /\ pos[id].current_price > pos[id].trailing_high

\* C20: when _check_stop_loss has run on a position with a valid price and the
\* closing sell, if one was attempted, succeeded, the position is out of the
\* active set exactly if its price is at or below its stop (with the trailing
\* stop active: at or below trailing_high * (1 - trailing% / 100)), so none
\* stays active at or below its stop; the close is recorded as TRAILING_STOP
\* when the trailing condition fired and as STOP_LOSS otherwise; the time exit
\* that follows leaves price and stop as they are.
StopLossExit ==
    [][/\ (TickStep /\ tick_pc = "sl" /\ ~SellFailed)
          => LET p == pos[Cur]
                 trailing_fired ==
                     /\ p.trailing_active
                     /\ p.current_price * 100
                          <= p.trailing_high * (100 - PoolConfig(p.pool).trailing_stop_percent)
                 stop_fired == p.current_price <= p.current_stop_loss
             IN  /\ trailing_fired
                    => /\ Cur \notin positions'
                       /\ hist'[Cur].closes = Append(hist[Cur].closes, "TRAILING_STOP")
                 /\ (~trailing_fired /\ stop_fired)
                    => /\ Cur \notin positions'
                       /\ hist'[Cur].closes = Append(hist[Cur].closes, "STOP_LOSS")
                 /\ (~trailing_fired /\ ~stop_fired)
                    => /\ Cur \in positions <=> Cur \in positions'
                       /\ hist'[Cur].closes = hist[Cur].closes
                 /\ Cur \in positions'
                    => pos'[Cur].current_price > pos'[Cur].current_stop_loss
       /\ (TickStep /\ tick_pc = "time")
          => /\ pos'[Cur].current_price = pos[Cur].current_price
             /\ pos'[Cur].current_stop_loss = pos[Cur].current_stop_loss
             /\ positions' \subseteq positions]_vars

\* a position whose trailing stop was active fell to or below the trailing-stop
\* price and was closed as TRAILING_STOP
ClosedByTrailingStop ==
    \E id \in Live :
        /\ hist[id].closes = <<"TRAILING_STOP">>
        /\ id \notin positions
        /\ pos[id].trailing_active
        /\ pos[id].current_price <= pos[id].current_stop_loss

\* ------------------------------------------------------------------------
\* the counters of _close_position (SpecPool)

\* a step of the monitoring loop in which the closing sell of the position in
\* hand succeeded
CloseStep ==
    /\ TickStep
    /\ tick_pc \in {"sl", "time"}
    /\ Len(hist'[Cur].closes) = Len(hist[Cur].closes) + 1

\* C21: each successful close adds 1 to daily_trades and the position's total
\* P&L (realized by the partial sells plus that of the final sell) to
\* daily_pnl, leaves the position out of the active set, and makes
\* consecutive_losses 0 if the total P&L is >= 0 and one more if it is < 0;
\* no other step changes consecutive_losses, so it is the number of losing
\* closes since the last non-losing one.
CloseBookkeeping ==
    [][/\ CloseStep
          => LET p == pos[Cur]
                 total == p.total_realized_pnl
                            + p.remaining_quantity * (p.current_price - p.entry_price)
             IN  /\ daily_trades' = daily_trades + 1
                 /\ daily_pnl' = daily_pnl + total
                 /\ Cur \notin positions'
                 /\ consecutive_losses' = IF total >= 0 THEN 0 ELSE consecutive_losses + 1
       /\ ~CloseStep => consecutive_losses' = consecutive_losses]_vars

\* after a losing close a non-losing close has put the counter back to 0
LossThenWinResets ==
    /\ consecutive_losses = 0
    /\ daily_trades >= 2
    /\ daily_pnl < 0

\* ------------------------------------------------------------------------
\* a tick over several positions in which a price is missing or not positive

\* As PoolBounds, the price provider returning no price (0) or a negative one
\* for some positions.
SkipBounds == [PoolBounds EXCEPT !.prices = {0 - PriceUnit, 0, 4, 30}]

NextSkip == NextOf(SkipBounds)
SpecSkip == Init /\ [][NextSkip]_vars

\* the step of update_positions after get_price returned for the position in hand
PriceReturned == TickStep /\ tick_pc = "price"

\* C22: in a tick, a position for which get_price gives no price or a price
\* that is not positive is left as it was (price, highest price, levels, stop,
\* quantities, the manager's counters and capital), none of the take-profit,
\* stop-loss and time-exit checks and no save is made for it, and the loop
\* goes on to the next position of the tick; a position that is processed has
\* a positive current price.
InvalidPriceLeavesPositionAlone ==
    [][PriceReturned
         => \/ /\ tick_pc' \in {"tp", "sl"}
               /\ tick_queue' = tick_queue
               /\ pos'[Cur].current_price > 0
            \/ /\ pos' = pos
               /\ UNCHANGED <<positions, ledger, hist, sell_failures>>
               /\ tick_queue' = Tail(tick_queue)
               /\ tick_pc' = IF tick_queue' = << >> THEN "idle" ELSE "price"]_vars

\* the first position of the tick has never had a valid price and is as it was
\* opened, while a later position of the same tick has been given its price
SkippedThenProcessed ==
    /\ tick_pc = "sl"
    /\ \E id \in positions :
          /\ id < Cur
          /\ pos[id] = NewPosition(pos[id].pool, pos[id].entry_price, pos[id].entry_value,
                                   pos[id].original_quantity, pos[id].current_stop_loss,
                                   pos[id].entry_time)
          /\ pos[Cur].current_price # pos[Cur].entry_price

\* ------------------------------------------------------------------------
\* MoonshotBot._enter_position (src/main.py) in front of open_position

\* position_size_percent as _make_decision leaves it, in tenths of a percent:
\* the pools' 15%, times 0.8, 1 or 1.2
SizePercents == {(15 * 8), (15 * 10), (15 * 12)}

\* size_usd = pool_capital * (size_pct / 100), to the cent, then
\* max(min_position_size, min(max_position_size, size_usd))
enter_size(pool, size_pct) ==
    LET size_usd == ((pool_capital(pool) * size_pct) \div (1000 * Cent)) * Cent
        capped == IF size_usd < max_position_size * Dollar
                  THEN size_usd ELSE max_position_size * Dollar
    IN  IF capped > min_position_size * Dollar THEN capped ELSE min_position_size * Dollar

\* at most this many buys succeed behind _enter_position
EnterMaxOpens == 2
\* at most this many calls of update_positions behind _enter_position
EnterMaxTicks == 1

\* Several positions side by side, each asked for by _enter_position at the
\* size it computes from the pool's capital, at pair.price_usd, which is 0 when
\* the pair data has no priceUsd.
EnterBounds ==
    [pools |-> Pools, entries |-> {0, PriceUnit},
     sizes |-> [pool \in Pools |-> {enter_size(pool, pct) : pct \in SizePercents}],
     prices |-> {30}, steps |-> {0},
     max_opens |-> EnterMaxOpens, max_ticks |-> EnterMaxTicks, max_sell_failures |-> 0,
     interleave |-> FALSE, one_at_a_time |-> FALSE]

NextEnter == NextOf(EnterBounds)
SpecEnter == Init /\ [][NextEnter]_vars

\* open_position has passed its checks and goes to the buy
OpenAccepted == scan_pc = "idle" /\ scan_pc' = "buy"

\* open_position registers a position
OpenRegisters == scan_pc = "buy" /\ next_id' = next_id + 1

\* the size is within the pool's capital at the call and within the configured
\* minimum and maximum, and the stop-loss is entry_price * (1 - |stop_loss%| / 100)
SizeAndStopAtOpen ==
    [][/\ OpenAccepted
          => /\ open_req'.size_usd <= pool_capital(open_req'.pool)
             /\ open_req'.size_usd >= min_position_size * Dollar
             /\ open_req'.size_usd <= max_position_size * Dollar
       /\ OpenRegisters
          => LET p == pos'[next_id]
             IN  /\ p.entry_value = open_req.size_usd
                 /\ pool_capital(p.pool) - p.entry_value
                      = (IF p.pool = "SAFE" THEN safe_pool_capital' ELSE hunt_pool_capital')
                 /\ p.current_stop_loss * 100
                      = p.entry_price * (100 - Abs(PoolConfig(p.pool).stop_loss_percent))
                 /\ p.entry_price > 0
                      => /\ p.original_quantity * p.entry_price = p.entry_value
                         /\ p.remaining_quantity = p.original_quantity]_vars

\* C23: every position that open_position registers has a size (entry_value,
\* the amount debited) that is at most the pool's capital at the call, at
\* least min_position_size and at most max_position_size, a quantity of
\* size / entry_price and a stop-loss of entry_price * (1 - |stop_loss%| / 100).
OpenSizing ==
    /\ SizeAndStopAtOpen
    /\ [][OpenRegisters
            => /\ pos'[next_id].entry_price > 0
               /\ pos'[next_id].original_quantity * pos'[next_id].entry_price
                    = pos'[next_id].entry_value]_vars

\* a position was registered at entry_price 0 with nothing in it, its size debited
OpenedWithNothing ==
    \E id \in positions :
        /\ pos[id].entry_price = 0
        /\ pos[id].original_quantity = 0
        /\ pos[id].entry_value >= min_position_size * Dollar

\* ------------------------------------------------------------------------
\* further properties of the confluence engine (SpecConfluence)

\* a token of at most 30 minutes is entered in HUNT only, an older one in SAFE
\* only and with at least 3 active signals and a score of at least 75
PoolFollowsAge ==
    Analyzed =>
        LET r == eng.result
            age == eng.call.pair.age_minutes
        IN  r.should_enter =>
               IF age <= 30
               THEN r.recommended_pool = Some("HUNT")
               ELSE /\ r.recommended_pool = Some("SAFE")
                    /\ r.active_signals >= 3
                    /\ eng.call.score.total_score >= 75

\* C24: a token of age <= 30 minutes can only be assigned HUNT, one of age
\* > 30 and up to 240 minutes (the SAFE pool's max_age) only SAFE, with
\* active_signals >= 3 and score >= 75, and a token older than 240 minutes is
\* never entered.
PoolByAgeWindow ==
    /\ PoolFollowsAge
    /\ Analyzed /\ eng.call.pair.age_minutes > 240 => ~eng.result.should_enter

\* a token older than the SAFE pool's max_age is entered in SAFE, "too old"
\* among its rejection reasons
EnteredTooOld ==
    /\ Analyzed
    /\ eng.call.pair.age_minutes > 240
    /\ eng.result.should_enter
    /\ eng.result.recommended_pool = Some("SAFE")
    /\ eng.result.rejection_reasons # << >>

\* position_size_percent, in tenths of a percent, and risk_level that a
\* decision to enter pool at this confidence should carry
PolicySize(pool, confidence) ==
    LET base == PoolConfig(pool).position_size_percent * 10
        scaled == IF confidence.num >= 80 * confidence.den THEN (base * 12) \div 10
                  ELSE IF confidence.num < 60 * confidence.den THEN (base * 8) \div 10
                  ELSE base
    IN  IF scaled > 200 THEN 200 ELSE scaled

PolicyRisk(pool, confidence) ==
    IF confidence.num >= 80 * confidence.den
    THEN (IF pool = "SAFE" THEN "LOW" ELSE "MEDIUM")
    ELSE IF confidence.num < 60 * confidence.den THEN "HIGH"
    ELSE (IF pool = "SAFE" THEN "MEDIUM" ELSE "HIGH")

\* C25: when should_enter is true, position_size_percent is the pool's
\* configured size times 1.2 if confidence >= 80, times 0.8 if confidence < 60,
\* times 1 otherwise, capped at 20; the risk level is one step below the
\* pool's (SAFE: MEDIUM, HUNT: HIGH) in the first case and HIGH in the second;
\* when should_enter is false, position_size_percent is 0 and no pool is
\* recommended.
SizeFollowsConfidence ==
    Analyzed =>
        LET r == eng.result
        IN  IF r.should_enter
            THEN /\ r.recommended_pool \in {Some("SAFE"), Some("HUNT")}
                 /\ r.position_size_percent = PolicySize(r.recommended_pool[1], r.confidence)
                 /\ r.risk_level = PolicyRisk(r.recommended_pool[1], r.confidence)
                 /\ r.confidence.num * 13 = WeightOfActive(r.signals) * 100 * r.confidence.den
            ELSE /\ r.position_size_percent = 0
                 /\ r.recommended_pool = None

\* a SAFE entry at a confidence of at least 80: 18% of the pool, risk LOW
EnteredLargerAtHighConfidence ==
    /\ Analyzed
    /\ eng.result.should_enter
    /\ eng.result.recommended_pool = Some("SAFE")
    /\ eng.result.confidence.num >= 80 * eng.result.confidence.den
    /\ eng.result.position_size_percent = 180
    /\ eng.result.risk_level = "LOW"

\* ConfluenceConfig.signals, the order in which analyze runs its checks
SignalNames ==
    <<"safety_passed", "liquidity_healthy", "holders_distributed", "volume_increasing",
      "buy_pressure_high", "momentum_bullish", "smart_money_buying", "social_buzz",
      "fresh_token", "no_red_flags">>

\* C26: every result has exactly ten signals, one per configured name in the
\* order of evaluation; max_weight is the sum of the ten configured weights;
\* an inactive signal has weight 0 (an active one its configured weight);
\* social_buzz is inactive whatever the input, so total_weight < max_weight
\* and confidence < 100.
TenSignalsSocialSilent ==
    Analyzed =>
        LET r == eng.result
        IN  /\ Len(r.signals) = 10
            /\ [i \in 1..10 |-> r.signals[i].name] = SignalNames
            /\ r.max_weight = 2 + 1 + 1 + 1 + 1 + 2 + 2 + 1 + 1 + 1
            /\ \A i \in 1..10 :
                  r.signals[i].weight = IF r.signals[i].active
                                        THEN signal_weights[SignalNames[i]] ELSE 0
            /\ ~r.signals[8].active
            /\ r.active_signals = Cardinality({i \in 1..10 : r.signals[i].active})
            /\ r.total_weight = WeightOfActive(r.signals)
            /\ r.total_weight < r.max_weight
            /\ r.confidence.num < 100 * r.confidence.den

\* every signal but social_buzz is active: weight 12 of 13, and an entry
AllButSocialActive ==
    /\ Analyzed
    /\ \A i \in (1..10) \ {8} : eng.result.signals[i].active
    /\ eng.result.total_weight = 12
    /\ eng.result.should_enter

\* ------------------------------------------------------------------------
\* further properties of the scoring engine (SpecScore)

\* every penalty of _score_dev applies to the contract
AllDevPenalties ==
    /\ eng.call.safety.has_mint
    /\ eng.call.safety.is_proxy
    /\ ~eng.call.safety.lp_locked
    /\ ~eng.call.safety.is_renounced

\* C27: each of the six component scores lies between 0 and its configured
\* maximum (liquidity 20, holders 20, trading 25, momentum 20, social 10,
\* dev 5); liquidity below the configured minimum scores 0; a top-holder
\* percentage above the configured maximum adds nothing to the holders score,
\* which is then that of the holder count alone; without social and
\* smart-money data the social score is 0; and with every penalty the dev
\* score is 0, not negative.
ComponentScoresInRange ==
    Scored =>
        LET b == eng.result
            holders == eng.call.safety.holder_count
        IN  /\ b.liquidity_score \in 0..20
            /\ b.holders_score \in 0..20
            /\ b.trading_score \in 0..25
            /\ b.momentum_score \in 0..20
            /\ b.social_score \in 0..10
            /\ b.dev_score \in 0..5
            /\ eng.call.pair.liquidity_usd < 3000 => b.liquidity_score = 0
            /\ eng.call.safety.top_holder_percent > 20
                  => b.holders_score = IF holders >= 1000 THEN 10
                                       ELSE IF holders >= 500 THEN 8
                                       ELSE IF holders >= 200 THEN 6
                                       ELSE IF holders >= 50 THEN 4
                                       ELSE 2
            /\ (eng.call.social_data = None /\ eng.call.smart_money_data = None)
                  => b.social_score = 0
            /\ AllDevPenalties => b.dev_score = 0

\* a token with liquidity under the minimum, a top holder above the maximum,
\* no social or smart-money data and every contract penalty has been scored
WorstOfEveryPart ==
    /\ Scored
    /\ eng.call.pair.liquidity_usd < 3000
    /\ eng.call.safety.top_holder_percent > 20
    /\ eng.call.social_data = None
    /\ eng.call.smart_money_data = None
    /\ AllDevPenalties
    /\ eng.result.liquidity_score = 0
    /\ eng.result.social_score = 0
    /\ eng.result.dev_score = 0

\* ------------------------------------------------------------------------
\* further properties of one position's life (Spec): what the ladder leaves

\* all four levels of the ladder have been sold for the position
LadderDone(p) == \A i \in 1..Len(TAKE_PROFIT_LADDER) :
                    InSeq(TAKE_PROFIT_LADDER[i].level, p.tp_levels_hit)

\* C28: after the four take-profit levels of the ladder (sell 20%, 30%, 25%,
\* 15%) have been executed on a position, its remaining quantity is 10% of
\* its original quantity.
MoonBagIsTenPercent ==
    \A id \in Live :
        LadderDone(pos[id]) => pos[id].remaining_quantity * 10 = pos[id].original_quantity

\* what the program leaves: each level sells its percentage of what remains,
\* 0.8 * 0.7 * 0.75 * 0.85 = 35.7% of the original quantity stays
MoonBagIsWhatRemains ==
    \A id \in Live :
        LadderDone(pos[id])
           => pos[id].remaining_quantity * 10000 = pos[id].original_quantity * 3570

\* ------------------------------------------------------------------------
\* exceptions inside update_positions

\* an exception that leaves update_positions altogether, as it would with the
\* try around the for loop
RecoverByAbort ==
    /\ tick_queue' = << >>
    /\ tick_pc' = "idle"
    /\ tp_idx' = 1

\* "except Exception as e: logger.error(...)" inside the for loop: the loop
\* takes the next position
Recover == NextPosition

\* the call awaited at the step in hand (get_price, sell_token of a take
\* profit or of a close, _save_position_state) raises; what _check_stop_loss
\* assigned before its sell stays
TickRaises ==
    /\ tick_pc \in {"price", "tp", "sl", "time", "save"}
    /\ LET id == Head(tick_queue)
           p == IF tick_pc = "sl" THEN trailing_ratchet(pos[id]) ELSE pos[id]
       IN  /\ tick_pc = "sl" => stop_loss_reason(p) # None /\ ~close_is_noop(p)
           /\ tick_pc = "time" => time_exit_due(p) /\ ~close_is_noop(p)
           /\ pos' = Release([pos EXCEPT ![id] = p], id, Freed)
           /\ hist' = Release(hist, id, NoHist)
    /\ Recover
    /\ UNCHANGED <<now, positions, next_id, available_capital, safe_pool_capital,
                   hunt_pool_capital, daily_pnl, daily_trades, consecutive_losses,
                   is_paused, pause_until, scan_pc, open_req, sell_failures, ticks>>

\* the sell succeeded and db.record_trade raises: a take profit has updated
\* the position but not activated the trailing stop, a close has booked nothing
TickRecordRaises ==
    /\ tick_pc \in {"tp", "sl", "time"}
    /\ LET id == Head(tick_queue)
           tp == TAKE_PROFIT_LADDER[tp_idx]
           p == IF tick_pc = "sl" THEN trailing_ratchet(pos[id]) ELSE pos[id]
           q == IF tick_pc = "tp"
                THEN [take_profit_success(p, tp) EXCEPT
                         !.trailing_active = p.trailing_active,
                         !.trailing_high = p.trailing_high]
                ELSE p
           sold == IF tick_pc = "tp" THEN sell_quantity(p, tp.sell_percent)
                   ELSE p.remaining_quantity
       IN  /\ tick_pc = "sl" => stop_loss_reason(p) # None /\ ~close_is_noop(p)
           /\ tick_pc = "time" => time_exit_due(p) /\ ~close_is_noop(p)
           /\ pos' = Release([pos EXCEPT ![id] = q], id, Freed)
           /\ hist' = Release([hist EXCEPT ![id].sold = @ + sold], id, NoHist)
    /\ Recover
    /\ UNCHANGED <<now, positions, next_id, available_capital, safe_pool_capital,
                   hunt_pool_capital, daily_pnl, daily_trades, consecutive_losses,
                   is_paused, pause_until, scan_pc, open_req, sell_failures, ticks>>

\* As PoolBounds with fewer positions, the clock moving at every tick and the
\* price flat or at the first level of the ladder.
RaiseBounds ==
    [PoolBounds EXCEPT !.prices = {PriceUnit, 30}, !.steps = {PauseStep},
                       !.max_opens = EnterMaxOpens]

\* The loops under RaiseBounds, any awaited call of a tick raising.
NextRaise ==
    \/ NextOf(RaiseBounds)
    \/ TickRaises /\ UNCHANGED <<eng, bot, rpc, db>>
    \/ TickRecordRaises /\ UNCHANGED <<eng, bot, rpc, db>>

SpecRaise == Init /\ [][NextRaise]_vars

\* a step that leaves the processing of a position before its save
LeavesEarly == tick_pc \in {"tp", "sl", "time"} /\ tick_pc' \in {"price", "idle"}

\* C29: an exception raised while update_positions processes one position
\* (in the price fetch, a sell or a persistence call) does not end the tick:
\* the position stays in the active set, the loop goes on with the next
\* position of the tick, the tick is over only when every position of it
\* has been taken, and the monitoring loop stays running for the next tick.
ExceptionsStayWithPosition ==
    /\ [](tick_pc = "idle" <=> tick_queue = << >>)
    /\ [][/\ LeavesEarly
             => /\ tick_queue' = Tail(tick_queue)
                /\ tick_pc' = IF Len(tick_queue) > 1 THEN "price" ELSE "idle"
                /\ positions' = positions
                /\ UNCHANGED <<ledger, ticks, scan_pc, bot>>
          /\ (tick_pc # "idle" /\ tick_queue' # tick_queue)
             => /\ tick_queue' = Tail(tick_queue)
                /\ tick_pc' = IF Len(tick_queue) > 1 THEN "price" ELSE "idle"]_vars

\* the second tick has begun with a position whose closing sell went through
\* in the first tick while the recording of it raised (all of it is sold, it
\* is still active), and a position after it was closed in that first tick
RaisedThenNextProcessed ==
    /\ ticks = 2
    /\ tick_pc = "price"
    /\ Cur \in positions
    /\ hist[Cur].sold = pos[Cur].original_quantity
    /\ \E id \in 1..(next_id - 1) : id > Cur /\ id \notin positions

\* ------------------------------------------------------------------------
\* RPCManager.request

\* how many requests a behaviour makes
MaxRequests == 2

\* what an endpoint answers to session.request: a 200 response with a JSON
\* body, a 200 response whose body response.json() cannot read, another
\* status, asyncio.TimeoutError from the session's ClientTimeout(total=30),
\* any other exception
Outcomes == {"ok", "bad_body", "status", "timeout", "error"}

\* RPCHealth.record_success without last_success and the latency statistics
record_success(h) ==
    [h EXCEPT !.consecutive_failures = 0, !.is_healthy = TRUE,
              !.total_requests = @ + 1]

\* record_failure giving an endpoint up after two failures in a row
record_failure_at_two(h, t) ==
    [h EXCEPT !.last_failure = t,
              !.consecutive_failures = @ + 1,
              !.total_requests = @ + 1,
              !.failed_requests = @ + 1,
              !.is_healthy = IF h.consecutive_failures + 1 >= 2 THEN FALSE ELSE @]

\* RPCHealth.record_failure at time t
record_failure(h, t) ==
    [h EXCEPT !.last_failure = t,
              !.consecutive_failures = @ + 1,
              !.total_requests = @ + 1,
              !.failed_requests = @ + 1,
              !.is_healthy = IF h.consecutive_failures + 1 >= 3 THEN FALSE ELSE @]

\* the endpoints in rotation order from current_index, as positions 1..3
Rotation(start_idx) == [i \in 1..3 |-> ((start_idx + i - 1) % 3) + 1]

\* min(endpoints, key=last_failure): the first of the least recently failed
oldest(health) ==
    CHOOSE e \in Endpoints :
        /\ \A f \in Endpoints : health[e].last_failure <= health[f].last_failure
        /\ \A f \in Endpoints :
              health[f].last_failure = health[e].last_failure => e <= f

\* _get_healthy_endpoint: the next healthy endpoint in rotation and the
\* advanced index, else the least recently failed one, marked healthy again
get_healthy_endpoint(health, current_index) ==
    LET order == Rotation(current_index)
        hits  == {i \in 1..3 : health[order[i]].is_healthy}
    IN  IF hits # {}
        THEN LET i == CHOOSE j \in hits : \A k \in hits : j <= k
             IN  [endpoint |-> order[i], health |-> health,
                  current_index |-> order[i] % 3]
        ELSE [endpoint |-> oldest(health),
              health |-> [health EXCEPT ![oldest(health)].is_healthy = TRUE],
              current_index |-> current_index]

\* for attempt in range(3)
attempts_left_four(attempt) == attempt < 4

attempts_left(attempt) == attempt < 3

OnlyRpc == UNCHANGED <<manager_vars, eng, bot, db>>

\* request up to the loop: an inactive chain returns None at once, the
\* session is started if there is none, a live cache entry is returned
RequestBegin(active, use_cache, hit) ==
    /\ rpc.pc = "idle"
    /\ rpc.calls < MaxRequests
    /\ hit => rpc.cache
    /\ rpc' = IF ~active
              THEN [rpc EXCEPT !.calls = @ + 1, !.active = FALSE, !.pc = "done",
                               !.result = None]
              ELSE IF use_cache /\ hit
              THEN [rpc EXCEPT !.calls = @ + 1, !.session = TRUE, !.pc = "done",
                               !.use_cache = use_cache, !.result = Cached]
              ELSE [rpc EXCEPT !.calls = @ + 1, !.session = TRUE, !.pc = "loop",
                               !.use_cache = use_cache,
                               !.cache = IF use_cache THEN FALSE ELSE @]
    /\ OnlyRpc

\* one pass of the loop up to the HTTP request: pick an endpoint; if it is
\* over its rate limit mark it unhealthy and go round again.  Whether the
\* endpoint saw rate_limit requests in the last second is the caller's
\* traffic, drawn as limited.
RequestAttempt(limited) ==
    /\ rpc.pc = "loop"
    /\ attempts_left(rpc.attempt)
    /\ LET g == get_healthy_endpoint(rpc.health, rpc.current_index)
       IN  rpc' = IF limited
                  THEN [rpc EXCEPT !.attempt = @ + 1, !.limited = @ + 1,
                                   !.current_index = g.current_index,
                                   !.health = [g.health EXCEPT
                                                 ![g.endpoint].is_healthy = FALSE]]
                  ELSE [rpc EXCEPT !.attempt = @ + 1, !.endpoint = g.endpoint,
                                   !.current_index = g.current_index,
                                   !.health = g.health, !.pc = "await"]
    /\ OnlyRpc

\* the endpoint answers, or the session's timeout ends the wait
RequestResponse(outcome) ==
    /\ rpc.pc = "await"
    /\ rpc' = IF outcome = "ok"
              THEN [rpc EXCEPT !.responses = Append(@, outcome),
                               !.health[rpc.endpoint] = record_success(@),
                               !.cache = IF rpc.use_cache THEN TRUE ELSE @,
                               !.result = Data, !.pc = "done"]
              ELSE [rpc EXCEPT !.responses = Append(@, outcome),
                               !.clock = @ + 1,
                               !.health[rpc.endpoint] = record_failure(@, rpc.clock + 1),
                               !.pc = "loop"]
    /\ OnlyRpc

\* the loop has run out: return None
RequestExhausted ==
    /\ rpc.pc = "loop"
    /\ ~attempts_left(rpc.attempt)
    /\ rpc' = [rpc EXCEPT !.result = None, !.pc = "done"]
    /\ OnlyRpc

\* the caller has the result; the manager is ready for the next request
RequestReturn ==
    /\ rpc.pc = "done"
    /\ rpc' = [rpc EXCEPT !.pc = "idle", !.active = TRUE, !.attempt = 0,
                          !.endpoint = 0, !.responses = << >>, !.limited = 0,
                          !.result = None]
    /\ OnlyRpc

NextRequest ==
    \/ \E active, use_cache, hit \in BOOLEAN : RequestBegin(active, use_cache, hit)
    \/ \E limited \in BOOLEAN : RequestAttempt(limited)
    \/ \E outcome \in Outcomes : RequestResponse(outcome)
    \/ RequestExhausted
    \/ RequestReturn

\* a request in hand is not starved: the loop body has no wait other than
\* the HTTP request, which the session's timeout ends
SpecRequest == Init /\ [][NextRequest]_vars /\ WF_vars(NextRequest)

\* the passes of the loop the request in hand has made
Passes == Len(rpc.responses) + rpc.limited

\* C30: request ends after at most three passes of its loop.  It never
\* makes a fourth pass; a request in the loop or waiting for an endpoint
\* always comes to return; it returns the body of the first 200 response
\* whose body it could read and asks no endpoint after it; on an inactive
\* chain it returns None without asking any endpoint; and when every pass
\* failed, timed out or was rate limited it returns None after exactly
\* three passes.
RequestTerminates ==
    /\ [](/\ rpc.attempt <= 3
          /\ Passes <= rpc.attempt
          /\ \A i \in 1..Len(rpc.responses) :
                rpc.responses[i] = "ok" => i = Len(rpc.responses) /\ rpc.pc = "done"
          /\ rpc.pc = "done" =>
                /\ rpc.result \in {None, Data, Cached}
                /\ Passes = rpc.attempt
                /\ ~rpc.active => rpc.result = None /\ rpc.attempt = 0
                /\ rpc.result = Data <=>
                      /\ rpc.responses # << >>
                      /\ rpc.responses[Len(rpc.responses)] = "ok"
                /\ rpc.result = Cached => rpc.attempt = 0 /\ rpc.use_cache
                /\ (rpc.result = None /\ rpc.active) =>
                      /\ rpc.attempt = 3
                      /\ \A i \in 1..Len(rpc.responses) : rpc.responses[i] # "ok")
    /\ (rpc.pc \in {"loop", "await"} ~> rpc.pc = "done")

\* two endpoints failed the request, one by a timeout and one rate limited,
\* and the third answered it
ThirdAttemptAnswers ==
    /\ rpc.pc = "done"
    /\ rpc.result = Data
    /\ rpc.attempt = 3
    /\ rpc.limited = 1
    /\ rpc.responses = <<"timeout", "ok">>

\* ------------------------------------------------------------------------
\* the capital ledger

\* what the step adds to the total
TotalDelta == available_capital' - available_capital

\* the step changes the capital of this pool alone, by d
OnlyPoolMoves(pool, d) ==
    /\ safe_pool_capital' = safe_pool_capital + (IF pool = "SAFE" THEN d ELSE 0)
    /\ hunt_pool_capital' = hunt_pool_capital + (IF pool = "SAFE" THEN 0 ELSE d)

\* C31: in every reachable state available_capital is the sum of the two
\* pools' capital; an open takes its size from the total and from the pool it
\* opens in, a close returns its proceeds to the total and to the position's
\* pool, and no other step touches any of the three.
TotalIsSumOfPools ==
    /\ [](available_capital = safe_pool_capital + hunt_pool_capital)
    /\ [][/\ OpenRegisters
             => /\ TotalDelta = 0 - open_req.size_usd
                /\ OnlyPoolMoves(open_req.pool, TotalDelta)
          /\ CloseStep
             => /\ TotalDelta = pos'[Cur].total_sold_value
                                  + pos'[Cur].remaining_quantity * pos'[Cur].current_price
                /\ OnlyPoolMoves(pos[Cur].pool, TotalDelta)
          /\ ~OpenRegisters /\ ~(TickStep /\ tick_pc \in {"sl", "time"})
             => UNCHANGED <<available_capital, safe_pool_capital, hunt_pool_capital>>]_vars

\* a HUNT position closes after a partial take-profit sell, an earlier close
\* is already in the ledger and a SAFE position is still held
ClosedAfterPartialSell ==
    /\ tick_pc = "time"
    /\ Cur \notin positions
    /\ pos[Cur].pool = "HUNT"
    /\ pos[Cur].total_sold_value > 0
    /\ daily_trades >= 2
    /\ \E i \in positions : pos[i].pool = "SAFE"

\* the pool's capital as __init__ sets it
allocation(pool) == (total_capital * PoolConfig(pool).allocation_percent) \div 100

\* the entry values of the pool's active positions, with at most one position
\* active at a time
ActiveEntryValue(pool) ==
    IF \E i \in positions : pos[i].pool = pool
    THEN pos[CHOOSE i \in positions : pos[i].pool = pool].entry_value
    ELSE 0

\* the position of the tick has been closed and update_positions still holds it
ClosedInHand == tick_pc \in {"time", "save"} /\ Cur \notin positions

\* the total P&L of the pool's closed position while update_positions holds it
ClosedTotalPnl(pool) ==
    IF ClosedInHand /\ pos[Cur].pool = pool THEN close_total_pnl(pos[Cur]) ELSE 0

\* every position opened so far is active or closed and still in hand
LedgerVisible == next_id = 1 \/ positions # {} \/ ClosedInHand

\* C32: for each pool, the pool's capital plus the entry values of its active
\* positions is its initial allocation plus the total P&L of its closed
\* positions: an open followed by its close changes the pool's capital by
\* exactly the position's total P&L.
LedgerConserved ==
    LedgerVisible =>
        \A pool \in Pools :
            pool_capital(pool) + ActiveEntryValue(pool)
                = allocation(pool) + ClosedTotalPnl(pool)

\* the same up to a position's first close: the partial sells are credited at
\* the close, and entry value plus total P&L is what the close returns
LedgerConservedByOneClose ==
    (LedgerVisible /\ (ClosedInHand => Len(hist[Cur].closes) = 1)) =>
        \A pool \in Pools :
            pool_capital(pool) + ActiveEntryValue(pool)
                = allocation(pool) + ClosedTotalPnl(pool)

\* a position sold in part by the ladder has been closed once and is in hand
ClosedOnceAfterLadder ==
    /\ ClosedInHand
    /\ Len(hist[Cur].closes) = 1
    /\ pos[Cur].total_sold_value > 0
    /\ close_total_pnl(pos[Cur]) > 0

\* C33: every position in the active set has entry_price > 0 and
\* remaining_quantity > 0, so that _close_position, which returns at once
\* when nothing is left to sell, can close it.
ActiveAreClosable ==
    \A i \in positions :
        /\ pos[i].entry_price > 0
        /\ pos[i].remaining_quantity > 0
        /\ ~close_is_noop(pos[i])

\* ------------------------------------------------------------------------
\* persistence: the positions table, a stop and a new start on the same file

\* the columns of the positions table (_create_tables)
PositionColumns ==
    {"id", "token_address", "symbol", "chain", "pool", "entry_price", "current_price",
     "quantity", "entry_value", "current_value", "pnl_percent", "pnl_usd",
     "highest_price", "stop_loss", "entry_time", "status", "tp_levels_hit",
     "exit_time", "exit_price", "exit_reason", "total_sold", "remaining_quantity",
     "created_at"}

\* the fields of the dataclass Position
PositionFields ==
    {"id", "token_address", "symbol", "chain", "pool", "entry_price", "current_price",
     "quantity", "entry_value", "current_value", "pnl_percent", "pnl_usd",
     "highest_price", "stop_loss", "entry_time", "status", "tp_levels_hit",
     "exit_time", "exit_price", "exit_reason", "total_sold", "remaining_quantity"}

\* Position.from_row: cls(**dict(zip(columns, row))) raises TypeError on a
\* column that is not a field of the dataclass
from_row_raises(columns) == columns \ PositionFields # {}

\* db.create_position on the Position open_position builds: the row inserted.
\* Of the columns, those the position manager writes or reads; tp_levels_hit
\* is the list that json.dumps writes and json.loads reads back.
create_position(req, t) ==
    [status |-> "OPEN", pool |-> req.pool, entry_price |-> req.entry_price,
     quantity |-> req.quantity, entry_value |-> req.size_usd,
     stop_loss |-> req.stop_loss, entry_time |-> t,
     current_price |-> req.entry_price, highest_price |-> req.entry_price,
     pnl_percent |-> 0, remaining_quantity |-> req.quantity, tp_levels_hit |-> << >>]

\* _save_position_state: db.update_position with these columns
save_position_state(row, p) ==
    [row EXCEPT !.current_price = p.current_price,
                !.highest_price = p.highest_price,
                !.pnl_percent = p.pnl_percent,
                !.stop_loss = p.current_stop_loss,
                !.remaining_quantity = p.remaining_quantity,
                !.tp_levels_hit = p.tp_levels_hit]

\* db.close_position
close_row(row, exit_price) ==
    [row EXCEPT !.status = "CLOSED", !.current_price = exit_price]

\* _load_open_positions: the ActivePosition built from a row; the fields it
\* does not pass keep the dataclass defaults
load_position(row) ==
    [pool |-> row.pool, entry_price |-> row.entry_price, entry_value |-> row.entry_value,
     entry_time |-> row.entry_time,
     current_price |-> row.current_price, highest_price |-> row.highest_price,
     pnl_percent |-> 0,
     tp_levels_hit |-> row.tp_levels_hit, current_stop_loss |-> row.stop_loss,
     trailing_active |-> FALSE, trailing_high |-> 0,
     original_quantity |-> row.quantity,
     remaining_quantity |-> IF row.remaining_quantity # 0
                            THEN row.remaining_quantity ELSE row.quantity,
     total_sold_value |-> 0, total_realized_pnl |-> 0]

\* PositionManager.stop: every active position is saved
stop_saves(rows) ==
    [i \in DOMAIN rows |->
        IF i \in positions THEN save_position_state(rows[i], pos[i]) ELSE rows[i]]

\* get_open_positions: the ids of the rows with status = 'OPEN'
open_rows(rows) == {i \in DOMAIN rows : rows[i].status = "OPEN"}

\* at most this many new processes are started on the file
MaxRestarts == 1

\* The process stops between two passes of its loops (MoonshotBot.stop:
\* PositionManager.stop saves the active positions) and a new one is started
\* on the same database file: PositionManager.__init__, then start() with
\* _load_open_positions.  get_open_positions converts every open row with
\* Position.from_row; when that raises, start() raises, MoonshotBot.start
\* never sets running and the process ends.
Restart ==
    /\ scan_pc = "idle" /\ tick_pc = "idle"
    /\ bot.running
    /\ db.starts <= MaxRestarts
    /\ LET rows == stop_saves(db.rows)
           open == open_rows(rows)
           raises == open # {} /\ from_row_raises(PositionColumns)
       IN  /\ db' = [rows |-> rows, starts |-> db.starts + 1,
                     start |-> IF raises THEN "TypeError" ELSE "ok",
                     before |-> [i \in DOMAIN pos |->
                                   IF i \in positions THEN pos[i] ELSE Freed]]
           /\ positions' = IF raises THEN {} ELSE open
           /\ pos' = [i \in DOMAIN pos |->
                        IF ~raises /\ i \in open THEN load_position(rows[i]) ELSE Freed]
           /\ bot' = IF raises THEN [bot EXCEPT !.running = FALSE] ELSE bot
    /\ available_capital' = total_capital
    /\ safe_pool_capital' = allocation("SAFE")
    /\ hunt_pool_capital' = allocation("HUNT")
    /\ daily_pnl' = 0
    /\ daily_trades' = 0
    /\ consecutive_losses' = 0
    /\ is_paused' = FALSE
    /\ pause_until' = None
    /\ UNCHANGED <<now, next_id, scan_pc, open_req, tick_pc, tick_queue, tp_idx,
                   hist, sell_failures, ticks, eng, rpc>>

\* the table after a step of update_positions on the position in hand: a
\* close that went through marks the row closed, the save writes the row
TickWrites ==
    db' = IF tick_pc \in {"sl", "time"} /\ Len(hist'[Cur].closes) > Len(hist[Cur].closes)
          THEN [db EXCEPT !.rows[Cur] = close_row(@, pos'[Cur].current_price)]
          ELSE IF tick_pc = "save"
          THEN [db EXCEPT !.rows[Cur] = save_position_state(@, pos[Cur])]
          ELSE db

\* at most this many buys succeed before and after the new start
RestartMaxOpens == 2
\* at most this many calls of update_positions before and after the new start
RestartMaxTicks == 2

\* Positions in both pools, through the ladder up to the trailing stop and
\* down to a stop-loss; every sell succeeds.
RestartBounds ==
    [PoolBounds EXCEPT !.prices = {14, 30, 120}, !.steps = {0},
                       !.max_opens = RestartMaxOpens, !.max_ticks = RestartMaxTicks]

NextRestart ==
    \/ \E pool \in RestartBounds.pools :
       \E e \in RestartBounds.entries, s \in RestartBounds.sizes[pool] :
          /\ tick_pc = "idle"
          /\ bot.running
          /\ OpenBegin(pool, e, s)
          /\ UNCHANGED <<eng, bot, rpc, db>>
    \/ \E ok \in BOOLEAN :
          /\ ok => next_id <= RestartBounds.max_opens
          /\ OpenFinish(ok)
          /\ db' = IF ok
                   THEN [db EXCEPT !.rows = Append(@, create_position(open_req, now))]
                   ELSE db
          /\ UNCHANGED <<eng, bot, rpc>>
    \/ \E dt \in RestartBounds.steps :
          /\ ticks < RestartBounds.max_ticks
          /\ scan_pc = "idle"
          /\ bot.running
          /\ TickBegin(dt)
          /\ UNCHANGED <<eng, bot, rpc, db>>
    \/ \E price \in RestartBounds.prices :
          TickPrice(price) /\ UNCHANGED <<eng, bot, rpc, db>>
    \/ TickTakeProfit(TRUE) /\ UNCHANGED <<eng, bot, rpc, db>>
    \/ TickStopLoss(TRUE) /\ TickWrites /\ UNCHANGED <<eng, bot, rpc>>
    \/ TickTimeExit(TRUE) /\ TickWrites /\ UNCHANGED <<eng, bot, rpc>>
    \/ TickSave /\ TickWrites /\ UNCHANGED <<eng, bot, rpc>>
    \/ Restart

SpecRestart == Init /\ [][NextRestart]_vars

\* a new process has just been started on the file
Restarted == db'.starts = db.starts + 1

\* the lifecycle state of a position
Lifecycle(p) ==
    <<p.tp_levels_hit, p.current_stop_loss, p.remaining_quantity, p.original_quantity,
      p.highest_price, p.total_realized_pnl, p.total_sold_value,
      p.trailing_active, p.trailing_high>>

\* C34: a position saved by _save_position_state and loaded again by
\* _load_open_positions has the lifecycle state it had: after a stop and a new
\* start every position that was active is active again with the same
\* tp_levels_hit, current_stop_loss, remaining_quantity, original_quantity,
\* highest_price, total_realized_pnl, total_sold_value, trailing_active and
\* trailing_high.
RoundTripKeepsLifecycle ==
    [][Restarted =>
          \A i \in positions :
              /\ i \in positions'
              /\ Lifecycle(pos'[i]) = Lifecycle(pos[i])]_vars

\* the same of the save and the load alone, whatever get_open_positions does
\* with the row in between: what _load_open_positions builds from the row
\* that _save_position_state writes
RowKeepsLifecycle ==
    \A i \in positions :
        Lifecycle(load_position(save_position_state(db.rows[i], pos[i])))
            = Lifecycle(pos[i])

\* the fields of the lifecycle state that the row does carry
RowKeepsSavedColumns ==
    \A i \in positions :
        LET q == load_position(save_position_state(db.rows[i], pos[i]))
        IN  /\ q.tp_levels_hit = pos[i].tp_levels_hit
            /\ q.current_stop_loss = pos[i].current_stop_loss
            /\ q.remaining_quantity = pos[i].remaining_quantity
            /\ q.original_quantity = pos[i].original_quantity
            /\ q.highest_price = pos[i].highest_price

RECURSIVE entry_values(_, _, _)
\* the entry values of the positions ids of heap that are in pool
entry_values(heap, ids, pool) ==
    IF ids = {} THEN 0
    ELSE LET i == CHOOSE i \in ids : TRUE
         IN  (IF heap[i].pool = pool THEN heap[i].entry_value ELSE 0)
               + entry_values(heap, ids \ {i}, pool)

\* C35: after start() has loaded the open positions of the repository the
\* ledger accounts for them: the positions that were open are active again,
\* and each pool's capital is its allocation less the entry values of the
\* loaded positions of that pool.
StartAccountsForLoaded ==
    [][Restarted =>
          /\ positions' = positions
          /\ safe_pool_capital'
               = allocation("SAFE") - entry_values(pos', positions', "SAFE")
          /\ hunt_pool_capital'
               = allocation("HUNT") - entry_values(pos', positions', "HUNT")]_vars

\* what start() leaves in fact: the capital of __init__, whatever the table
\* holds
StartLeavesAllocation ==
    [][Restarted =>
          /\ safe_pool_capital' = allocation("SAFE")
          /\ hunt_pool_capital' = allocation("HUNT")
          /\ available_capital' = total_capital]_vars

\* C36: tp_levels_hit is always a prefix of the ladder, 1..k in order, also
\* when sells fail within a tick, and so the trailing stop, which level 4
\* activates, is never active while a lower level is unhit.
LevelsHitArePrefix ==
    \A id \in Live :
        /\ \A k \in 1..Len(pos[id].tp_levels_hit) : pos[id].tp_levels_hit[k] = k
        /\ pos[id].trailing_active
              => \A k \in 1..3 : InSeq(k, pos[id].tp_levels_hit)

\* what does hold of tp_levels_hit: no level is recorded twice
LevelsHitOnce ==
    \A id \in Live :
        \A j, k \in 1..Len(pos[id].tp_levels_hit) :
            pos[id].tp_levels_hit[j] = pos[id].tp_levels_hit[k] => j = k

\* ------------------------------------------------------------------------
\* what an entered token is known to be

\* the inputs of analyze for every safety status, on either side of the
\* holder, momentum and price-change comparisons, all else in favour of entry
GateCalls ==
    { [safety |-> [status |-> st, holder_count |-> h[1], top_holder_percent |-> h[2],
                   has_mint |-> FALSE, is_proxy |-> FALSE, can_pause |-> FALSE,
                   tax_buy |-> 0, tax_sell |-> 0],
       pair |-> [liquidity_usd |-> 20000, volume_24h |-> 5000, volume_1h |-> 2000,
                 volume_6h |-> 12000, txns_buys_1h |-> 55, txns_sells_1h |-> 45,
                 age_minutes |-> age, price_change_5m |-> change],
       momentum |-> momentum, smart_money |-> Some(2), score |-> [total_score |-> 75]] :
         st \in {"SAFE", "WARNING", "DANGEROUS", "UNKNOWN"},
         h \in {<<19, 20>>, <<20, 20>>, <<20, 21>>},
         age \in {30, 31},
         change \in {0 - 21, 0 - 20},
         momentum \in MomentumSignals }

NextGate == Analyze(GateCalls)
SpecGate == Init /\ [][NextGate]_vars

\* C37: whatever the inputs of analyze, should_enter is true only if the
\* safety status is SAFE, the top holder has at most max_top_holder_percent,
\* the momentum signal is not dumping and the price has not fallen by more
\* than 20% in 5 minutes.
EnteredOnlyIfSafe ==
    (Analyzed /\ eng.result.should_enter) =>
        /\ eng.call.safety.status = "SAFE"
        /\ eng.call.safety.top_holder_percent <= max_top_holder_percent
        /\ ~eng.call.momentum.is_dumping
        /\ eng.call.pair.price_change_5m >= 0 - 20

\* entered at the limit of both figures, with a rejection reason that is not
\* critical
EnteredAtTheLimits ==
    /\ Analyzed
    /\ eng.result.should_enter
    /\ eng.call.safety.top_holder_percent = max_top_holder_percent
    /\ eng.call.pair.price_change_5m = 0 - 20
    /\ eng.call.safety.holder_count < min_holders
    /\ eng.result.rejection_reasons # << >>

\* ------------------------------------------------------------------------
\* SafetyEngine.analyze

\* SafetyCheck(name, passed, value, message, severity)
SafetyCheck(name, passed, severity) ==
    [name |-> name, passed |-> passed, severity |-> severity]

\* _parse_evm: the checks appended for the token's entry.  Of the entry, what
\* each test makes of it: the flags compared with "1", whether a tax is above
\* max_tax_percent, whether holder_count is at least min_holders, whether any
\* LP holder is locked.
parse_evm(d) ==
    << SafetyCheck("honeypot", ~d.is_honeypot, "high"),
       SafetyCheck("mint_function", ~d.is_mintable, "high"),
       SafetyCheck("proxy_contract", ~d.is_proxy, "high"),
       SafetyCheck("can_pause", ~d.can_pause, "high"),
       SafetyCheck("blacklist", ~d.blacklist, "medium"),
       SafetyCheck("tax", ~d.high_tax, IF d.high_tax THEN "high" ELSE "low"),
       SafetyCheck("ownership", d.renounced, "medium"),
       SafetyCheck("holder_count", d.enough_holders, "medium"),
       SafetyCheck("lp_locked", d.lp_locked, "high") >>

\* _parse_solana: mint and freeze authority always, the LP and the holders
\* only when the response has them (lp, holders: <<>> when missing)
parse_solana(d) ==
    << SafetyCheck("mint_function", ~d.has_mint, "high"),
       SafetyCheck("freeze_authority", ~d.has_freeze, "high") >>
    \o (IF d.lp # None THEN <<SafetyCheck("lp_locked", d.lp[1], "high")>> ELSE << >>)
    \o (IF d.holders # None
        THEN <<SafetyCheck("holder_concentration", ~d.holders[1],
                           IF d.holders[1] THEN "high" ELSE "low")>>
        ELSE << >>)

RECURSIVE penalties(_)
\* what the failed checks take off the score
penalties(cs) ==
    IF cs = << >> THEN 0
    ELSE (IF Head(cs).passed THEN 0
          ELSE IF Head(cs).severity = "high" THEN 25
          ELSE IF Head(cs).severity = "medium" THEN 10
          ELSE 5)
         + penalties(Tail(cs))

\* critical_fail: a failed check of high severity
critical_fail(cs) ==
    \E i \in 1..Len(cs) : ~cs[i].passed /\ cs[i].severity = "high"

\* report.score = max(0, min(100, score))
safety_score(cs) ==
    Max(0, IF 100 - penalties(cs) < 100 THEN 100 - penalties(cs) ELSE 100)

\* the status _calculate_score gives a report with score s
safety_status(report, s) ==
    IF report.is_honeypot THEN "DANGEROUS"
    ELSE IF critical_fail(report.checks) THEN "DANGEROUS"
    ELSE IF s >= 75 THEN "SAFE"
    ELSE IF s >= 50 THEN "WARNING"
    ELSE "DANGEROUS"

\* _calculate_score: the score and the status, whatever the status was
calculate_score(report) ==
    [report EXCEPT
       !.score = safety_score(report.checks),
       !.status = safety_status(report, safety_score(report.checks))]

\* SafetyReport(token_address=..., chain=...)
NewReport == [status |-> "UNKNOWN", checks |-> << >>, score |-> 0, is_honeypot |-> FALSE]

\* analyze on a token that is not cached.  response is what _request
\* returned: kind "none" for None (the request failed, or the answer's code
\* was not 1), "empty" for an empty result, "other" for a result without an
\* entry for the token, "blank" for one whose entry for the token is empty,
\* "data" for one with the entry (EVM) or the token's data (Solana) in data.
safety_analyze(chain, response) ==
    IF response.kind \in {"none", "empty"}
    THEN [NewReport EXCEPT !.checks = <<SafetyCheck("api_response", FALSE, "high")>>]
    ELSE IF chain = "SOL"
    THEN calculate_score([NewReport EXCEPT !.checks = parse_solana(response.data)])
    ELSE IF response.kind = "data"
    THEN calculate_score([NewReport EXCEPT !.checks = parse_evm(response.data),
                                           !.is_honeypot = response.data.is_honeypot])
    ELSE calculate_score(NewReport)

\* the entries of an EVM answer on either side of every test
EvmData ==
    [is_honeypot : BOOLEAN, is_mintable : BOOLEAN, is_proxy : {FALSE},
     can_pause : {FALSE}, blacklist : BOOLEAN, high_tax : BOOLEAN,
     renounced : BOOLEAN, enough_holders : BOOLEAN, lp_locked : BOOLEAN]

\* the data of a Solana answer: with and without lpInfo and holders
SolanaData ==
    [has_mint : BOOLEAN, has_freeze : BOOLEAN,
     lp : {None, Some(TRUE), Some(FALSE)}, holders : {None, Some(TRUE), Some(FALSE)}]

NoData == [is_honeypot |-> FALSE]

SafetyCalls ==
    { [chain |-> "SOL", response |-> [kind |-> k, data |-> NoData]] : k \in {"none", "empty"} }
    \cup { [chain |-> "SOL", response |-> [kind |-> "data", data |-> d]] : d \in SolanaData }
    \cup { [chain |-> c, response |-> [kind |-> k, data |-> NoData]] :
              c \in {"BSC", "BASE"}, k \in {"none", "empty", "other", "blank"} }
    \cup { [chain |-> c, response |-> [kind |-> "data", data |-> d]] :
              c \in {"BSC", "BASE"}, d \in EvmData }

\* the first call of SafetyEngine.analyze, on any of the inputs
SafetyAnalyze ==
    /\ eng = NoCall
    /\ \E c \in SafetyCalls :
          eng' = [kind |-> "safety", call |-> c,
                  result |-> safety_analyze(c.chain, c.response)]
    /\ UNCHANGED <<manager_vars, bot, rpc, db>>

NextSafety == SafetyAnalyze
SpecSafety == Init /\ [][NextSafety]_vars

\* C38: analyze never reports SAFE for a token about which the provider
\* returned no data: when the request fails, or the answer has no entry for
\* the token, the status of the report is UNKNOWN.
NoDataIsUnknown ==
    (eng.kind = "safety" /\ eng.call.response.kind # "data")
        => eng.result.status = "UNKNOWN"

\* what does hold: a failed request or an empty result is reported UNKNOWN
FailedRequestIsUnknown ==
    (eng.kind = "safety" /\ eng.call.response.kind \in {"none", "empty"})
        => eng.result.status = "UNKNOWN" /\ eng.result.score = 0

\* ------------------------------------------------------------------------
\* the pause over a streak of losing closes

\* at most this many buys succeed while a streak of losses is followed
StreakMaxOpens == 4
\* at most this many calls of update_positions while a streak is followed
StreakMaxTicks == 3

\* As PoolBounds, for one more position and one more pass: a price is a loss
\* at the stop (4) or the entry price (20), and the clock also moves by a
\* part of the pause.
StreakBounds ==
    [PoolBounds EXCEPT !.prices = {4, 20}, !.steps = {0, TimeStep, PauseStep},
                       !.max_opens = StreakMaxOpens, !.max_ticks = StreakMaxTicks]

\* The loops of src/main.py under StreakBounds.  Neither price reaches the
\* trigger of a take-profit level, so update_positions never awaits the sell
\* of one: it goes from the price to the stop loss.
NextStreak ==
    \/ \E pool \in StreakBounds.pools :
       \E e \in StreakBounds.entries, s \in StreakBounds.sizes[pool] :
          /\ tick_pc = "idle"
          /\ bot.running
          /\ OpenBegin(pool, e, s)
          /\ UNCHANGED <<eng, bot, rpc, db>>
    \/ \E ok \in BOOLEAN :
          /\ ok => next_id <= StreakBounds.max_opens
          /\ OpenFinish(ok)
          /\ UNCHANGED <<eng, bot, rpc, db>>
    \/ \E dt \in StreakBounds.steps :
          /\ ticks < StreakBounds.max_ticks
          /\ scan_pc = "idle"
          /\ bot.running
          /\ TickBegin(dt)
          /\ UNCHANGED <<eng, bot, rpc, db>>
    \/ \E price \in StreakBounds.prices : TickPrice(price) /\ UNCHANGED <<eng, bot, rpc, db>>
    \/ TickStopLoss(TRUE) /\ UNCHANGED <<eng, bot, rpc, db>>
    \/ TickTimeExit(TRUE) /\ UNCHANGED <<eng, bot, rpc, db>>
    \/ TickSave /\ UNCHANGED <<eng, bot, rpc, db>>
    \/ DailyReset /\ UNCHANGED <<eng, bot, rpc, db>>

SpecStreak == Init /\ [][NextStreak]_vars

\* C39: consecutive_losses changes in closes only: the activation of a pause,
\* the clearing of a pause that has run out and the daily reset leave it.  So
\* with the counter at consecutive_loss_pause or more, each further losing
\* close, whether the pause is still in force or has run out and been
\* cleared, sets is_paused and sets pause_until to pause_duration_hours from
\* the moment of the close: never earlier than it was, and later whenever the
\* clock has moved since the pause was set.
StreakKeepsPausing ==
    [][/\ consecutive_losses' # consecutive_losses => CloseStep
       /\ (/\ CloseStep
           /\ consecutive_losses >= 3
           /\ consecutive_losses' > consecutive_losses)
          => /\ is_paused'
             /\ pause_until' = Some(now + 4 * 60)
             /\ pause_until # None
             /\ pause_until'[1] >= pause_until[1]
             /\ now + 4 * 60 > pause_until[1] => pause_until'[1] > pause_until[1]]_vars

\* C39's case: three losing closes set the pause before the daily reset at
\* midnight; the position in hand was opened once that pause had run out,
\* and its losing close, the only one since the reset, has set the pause again
ResumedThenPausedAgain ==
    /\ ClosedInHand
    /\ consecutive_losses = 4
    /\ daily_trades = 1
    /\ pos[Cur].entry_time >= StartTime + PauseStep
    /\ is_paused
    /\ pause_until = Some(now + PauseStep)

\* ------------------------------------------------------------------------
\* the health of the endpoints

\* how far endpoint e is from the rotation's start, in list positions
FromStart(e) == (e - 1 - rpc.current_index + 3) % 3

\* the endpoints marked healthy
Healthy == {e \in Endpoints : rpc.health[e].is_healthy}

\* endpoint e is the one a pass of the loop is to get: the first healthy
\* one from the rotation's start or, with none healthy, the first in the list
\* of those whose last failure is the oldest
IsThePick(e) ==
    IF Healthy # {}
    THEN /\ e \in Healthy
         /\ \A f \in Healthy : FromStart(e) <= FromStart(f)
    ELSE /\ \A f \in Endpoints : rpc.health[e].last_failure <= rpc.health[f].last_failure
         /\ \A f \in Endpoints :
               rpc.health[f].last_failure = rpc.health[e].last_failure => e <= f

\* C40: record_failure marks an endpoint unhealthy only once it has failed
\* three times in a row, and then it does; a success puts
\* consecutive_failures back to 0 and marks the endpoint healthy;
\* failed_requests never exceeds total_requests; and every pass of request's
\* loop on an active chain gets an endpoint: the next healthy one in rotation,
\* the index moving past it, or, with none healthy, the one whose last
\* failure is the oldest, marked healthy again.
EndpointHealth ==
    /\ [](\A e \in Endpoints :
             rpc.health[e].failed_requests <= rpc.health[e].total_requests)
    /\ [][/\ rpc.pc = "await"
             => LET e == rpc.endpoint
                    h == rpc.health[e]
                    after == rpc'.health[e]
                IN  /\ e \in Endpoints
                    /\ \A f \in Endpoints \ {e} : rpc'.health[f] = rpc.health[f]
                    /\ IF rpc'.result = Data
                       THEN after.consecutive_failures = 0 /\ after.is_healthy
                       ELSE /\ after.consecutive_failures = h.consecutive_failures + 1
                            /\ after.consecutive_failures >= 3 => ~after.is_healthy
                            /\ after.consecutive_failures < 3
                                  => after.is_healthy = h.is_healthy
          /\ (rpc.pc = "loop" /\ rpc.attempt < 3)
             => \E e \in Endpoints :
                   /\ IsThePick(e)
                   /\ rpc'.current_index = IF Healthy # {} THEN e % 3 ELSE rpc.current_index
                   /\ \A f \in Endpoints \ {e} : rpc'.health[f] = rpc.health[f]
                   /\ IF rpc'.pc = "await"
                      THEN rpc'.endpoint = e /\ rpc'.health[e].is_healthy
                      ELSE ~rpc'.health[e].is_healthy]_vars

\* C40's case: two endpoints were marked unhealthy over their rate limit, the
\* third by record_failure at its third failure in a row; with none healthy
\* the last pass of the second request has marked the first in the list
\* healthy again, which has never failed, and is waiting for its answer
RevivedWithNoneHealthy ==
    /\ rpc.pc = "await"
    /\ rpc.calls = 2
    /\ rpc.attempt = 3
    /\ rpc.endpoint = 1
    /\ rpc.health[1].is_healthy
    /\ rpc.health[1].total_requests = 0
    /\ ~rpc.health[2].is_healthy
    /\ rpc.health[2].total_requests = 0
    /\ ~rpc.health[3].is_healthy
    /\ rpc.health[3].consecutive_failures = 3
    /\ rpc.health[3].failed_requests = 3

====
